---- MODULE Spec2Model ----
\* Verification model of the Trader Hub v1 analysis core:
\*   api/src/signals.ts (src/unnamed/part_000)  - the signal synthesizer
\*   api/src/index.ts   (src/api/src/index.ts)  - indicators and the daily report
\*
\* Every operation is a call frame: `input` holds the arguments, `out` the
\* candidate list a synthesis is assembling, `ret` the value returned (or the
\* error thrown) and `pc` the position of the call.  Prices are integers in a
\* fixed unit; every comparison of the code is between inputs or against an
\* integer threshold, so the integer grid meets both sides of each comparison.
EXTENDS Integers, Sequences, FiniteSets, TLC

VARIABLES pc, input, out, ret

vars == <<pc, input, out, ret>>

\* ---------------------------------------------------------------- values

\* JavaScript's null, undefined and NaN where a number is expected: three
\* values outside every number the model uses.
Null == -999001
Undefined == -999002
NaN == -999003

IsNum(x) == x \notin {Null, Undefined, NaN}

\* n(x): Number(x) when that is finite, else null.  Number(null) is 0,
\* Number(undefined) and Number(NaN) are NaN.
n(x) ==
  IF x = Null THEN 0
  ELSE IF IsNum(x) THEN x
  ELSE Null

\* a ?? b
Coalesce(a, b) == IF a = Null \/ a = Undefined THEN b ELSE a

Min2(a, b) == IF a <= b THEN a ELSE b
Max2(a, b) == IF a >= b THEN a ELSE b
Abs(a) == IF a >= 0 THEN a ELSE -a

\* v.toFixed(d) of a whole number v: its numeral, a point and d zeros.
Zeros(d) == IF d = 0 THEN "" ELSE IF d = 1 THEN "0" ELSE "00"
toFixed(v, d) == ToString(v) \o (IF d = 0 THEN "" ELSE "." \o Zeros(d))

\* v.toLocaleString(undefined, {maximumFractionDigits: d}) of a whole number
\* below a million in magnitude: grouped by thousands, no decimals.
Pad3(k) == IF k < 10 THEN "00" \o ToString(k)
           ELSE IF k < 100 THEN "0" \o ToString(k) ELSE ToString(k)
toLocaleString(v) ==
  (IF v < 0 THEN "-" ELSE "") \o ToString(Abs(v) \div 1000) \o "," \o Pad3(Abs(v) % 1000)

\* fmt(x, d = 2)
fmt(x, d) ==
  LET v == n(x)
  IN IF v = Null THEN "-"
     ELSE IF Abs(v) >= 1000 THEN toLocaleString(v) ELSE toFixed(v, d)

\* uid(prefix, key): `${prefix}:${key}`
uid(prefix, key) == prefix \o ":" \o key

Range(s) == {s[i] : i \in DOMAIN s}

\* The outcome of a call that may throw: the value returned, or the error.
Returned(v) == [threw |-> "", value |-> v]
Thrown(what) == [threw |-> what, value |-> <<>>]

\* ---------------------------------------------------------------- signals

Severities == {"high", "med", "low", "info"}

Sig(id, category, type, severity, title) ==
  [id |-> id, category |-> category, type |-> type,
   severity |-> severity, title |-> title]

\* rank[s.severity] ?? 0
Rank(sev) ==
  CASE sev = "high" -> 4
    [] sev = "med" -> 3
    [] sev = "low" -> 2
    [] sev = "info" -> 1
    [] OTHER -> 0

\* `${s.category}:${s.type}:${s.title}`
Key(s) == <<s.category, s.type, s.title>>

Keys(list) == {Key(list[i]) : i \in DOMAIN list}

\* The result cap of buildSignals.
MaxSignals == 12

\* out.sort((a, b) => rank[b.severity] - rank[a.severity]): a stable sort, so
\* each element lands behind every element already placed whose rank is not
\* lower.
InsertByRank(sorted, x) ==
  LET p == Cardinality({i \in DOMAIN sorted :
                          Rank(sorted[i].severity) >= Rank(x.severity)})
  IN SubSeq(sorted, 1, p) \o <<x>> \o SubSeq(sorted, p + 1, Len(sorted))

RECURSIVE SortFrom(_, _, _)
SortFrom(list, i, sorted) ==
  IF i > Len(list) THEN sorted
  ELSE SortFrom(list, i + 1, InsertByRank(sorted, list[i]))

SortUnsorted(list) == list
SortBySeverity(list) == SortFrom(list, 1, <<>>)

\* The loop over the sorted list: skip a key already seen, push, stop at the cap.
RECURSIVE DedupeLoop(_, _, _, _)
DedupeLoop(list, i, seen, final) ==
  IF i > Len(list) THEN final
  ELSE IF Key(list[i]) \in seen THEN DedupeLoop(list, i + 1, seen, final)
  ELSE LET pushed == Append(final, list[i])
       IN IF Len(pushed) >= MaxSignals THEN pushed
          ELSE DedupeLoop(list, i + 1, seen \cup {Key(list[i])}, pushed)

DedupeNoCap(list) == list
DedupeCap(list) == DedupeLoop(list, 1, {}, <<>>)

\* Lines 573-585 of buildSignals: sort the candidates in place, then dedupe and cap.
RankDedupeCap ==
  /\ pc = "rank"
  /\ out' = SortBySeverity(out)
  /\ ret' = DedupeCap(out')
  /\ pc' = "done"
  /\ UNCHANGED input

\* ------------------------------------------------- candidate lists (SpecSynth)

\* Candidate lists are assembled by out.push(...batch) calls.  SpecSynth covers
\* the lists a sequence of batches can assemble: a batch is a run of signals of
\* one severity, with distinct triples ("uniq"), with one shared triple
\* ("dup"), or repeating the triple of the first candidate ("again").
MaxRuns == 2
LongRun == 15
RunLens == {3, LongRun}
RunKinds == {"uniq", "dup", "again"}


\* The k-th signal of batch r; its id names the batch and the place in it.
RunId(r, k) == uid("structure", "fvg_" \o ToString(r) \o "_" \o ToString(k))
RunOf(s) == CHOOSE r \in 1..MaxRuns :
              \E k \in 1..LongRun : s.id = RunId(r, k)

RunSignal(list, r, k, kind, sev) ==
  CASE kind = "uniq" ->
         Sig(RunId(r, k), "structure", "fvg", sev,
             "FVG " \o ToString(r) \o "-" \o ToString(k))
    [] kind = "dup" ->
         Sig(RunId(r, k), "structure", "fvg", sev, "FVG " \o ToString(r))
    [] OTHER -> Sig(RunId(r, k), list[1].category, list[1].type, sev, list[1].title)

RunsIn(list) == IF list = <<>> THEN 0 ELSE RunOf(list[Len(list)])

Run(list, kind, sev, len) ==
  [k \in 1..len |-> RunSignal(list, RunsIn(list) + 1, k, kind, sev)]

InitSynth ==
  /\ pc = "gen"
  /\ input = Null
  /\ out = <<>>
  /\ ret = <<>>

\* out.push(...batch), then either another batch or the ranking.
Generate ==
  /\ pc = "gen"
  /\ RunsIn(out) < MaxRuns
  /\ \E kind \in RunKinds, sev \in Severities, len \in RunLens :
       /\ kind = "again" => out # <<>>
       /\ out' = out \o Run(out, kind, sev, len)
  /\ pc' \in {"gen", "rank"}
  /\ UNCHANGED <<input, ret>>

NextSynth == Generate \/ RankDedupeCap

SpecSynth == InitSynth /\ [][NextSynth]_vars

\* ------------------------------------------------- claims on the ranking

\* The reference result: stable sort by descending rank, first occurrence of
\* each triple, first twelve.
OfRank(list, r) == SelectSeq(list, LAMBDA s : Rank(s.severity) = r)

RefSorted(list) ==
  OfRank(list, 4) \o OfRank(list, 3) \o OfRank(list, 2) \o OfRank(list, 1)
    \o OfRank(list, 0)

RefFirsts(list) ==
  LET idx == [i \in 1..Len(list) |-> i]
      keep == SelectSeq(idx, LAMBDA i :
                \A j \in 1..(i - 1) : Key(list[j]) # Key(list[i]))
  IN [k \in 1..Len(keep) |-> list[keep[k]]]

RefTake(list, k) == SubSeq(list, 1, Min2(k, Len(list)))

Reference(list) == RefTake(RefFirsts(RefSorted(list)), 12)

NonIncreasing(list) ==
  \A i \in 1..(Len(list) - 1) :
    Rank(list[i].severity) >= Rank(list[i + 1].severity)

DistinctKeys(list) ==
  \A i, j \in DOMAIN list : i # j => Key(list[i]) # Key(list[j])

\* A list of 15 low-severity signals sharing one triple followed by 3
\* high-severity signals with distinct triples.
FifteenLowThenThreeHigh(list) ==
  /\ Len(list) = 18
  /\ \A i \in 1..15 : list[i].severity = "low" /\ Key(list[i]) = Key(list[1])
  /\ \A i \in 16..18 : list[i].severity = "high"
  /\ Cardinality({Key(list[i]) : i \in 16..18}) = 3

\* C1: when the ranking runs on a candidate list, no candidate whose triple is
\* absent from the returned list (dropped by the cap, not as a duplicate) has a
\* strictly higher severity rank than a returned signal; and on 15 low
\* duplicates followed by 3 distinct high signals all 3 high signals are
\* returned.
C1_SeverityBeforeTruncation ==
  [][pc = "rank" =>
       /\ \A i \in DOMAIN out :
            Key(out[i]) \notin Keys(ret') =>
              \A j \in DOMAIN ret' :
                Rank(out[i].severity) <= Rank(ret'[j].severity)
       /\ FifteenLowThenThreeHigh(out) =>
            \A i \in 16..18 : out[i] \in Range(ret')]_vars

\* The synthetic case of C1 has been ranked: the sorted candidates are the 3
\* high signals of the second batch, then the 15 low duplicates of the first.
C1_Witness ==
  /\ pc = "done"
  /\ Len(out) = 18
  /\ \A i \in 1..3 : out[i].severity = "high" /\ RunOf(out[i]) = 2
  /\ \A i \in 4..18 : out[i].severity = "low" /\ RunOf(out[i]) = 1
                        /\ Key(out[i]) = Key(out[4])
  /\ Cardinality({Key(out[i]) : i \in 1..3}) = 3
  /\ Len(ret) = 4

\* C2: the returned list is the reference result of the candidate list: at most
\* 12 entries, no triple twice, severity rank non-increasing.
C2_ReferenceResult ==
  [][pc = "rank" =>
       /\ ret' = Reference(out)
       /\ Len(ret') <= 12
       /\ DistinctKeys(ret')
       /\ NonIncreasing(ret')]_vars

\* A ranking that sorted, dropped duplicates and hit the cap.
C2_Witness ==
  /\ pc = "done"
  /\ Len(ret) = 12
  /\ Cardinality(Keys(out)) > 12
  /\ Cardinality(Keys(out)) < Len(out)
  /\ ret[1].severity # ret[12].severity
  /\ \E i \in DOMAIN out : RunOf(out[i]) = 2 /\ out[i] = ret[1]

\* ---------------------------------------------------------------- bars

\* Bar: open, high, low, close.
Bar(o, h, l, c) == [o |-> o, h |-> h, l |-> l, c |-> c]

\* bars[i] with the code's zero-based index; Has(bars, i) is its truthiness.
Has(bars, i) == i >= 0 /\ i < Len(bars)
At(bars, i) == bars[i + 1]

bodySize(b) == Abs(b.c - b.o)
isBull(b) == b.c > b.o
isBear(b) == b.c < b.o

\* x / rangeSize(b) >= pct / 100 and <= pct / 100, where rangeSize(b) is
\* Math.max(1e-9, b.h - b.l): on integer prices a range below 1 is 1e-9, and
\* x / 1e-9 passes a threshold between 0 and 1 exactly when x is at least 1.
RatioGe(x, b, pct) ==
  IF b.h - b.l > 0 THEN 100 * x >= pct * (b.h - b.l) ELSE x >= 1
RatioLe(x, b, pct) ==
  IF b.h - b.l > 0 THEN 100 * x <= pct * (b.h - b.l) ELSE x <= 0

\* ---------------------------------------------------------------- candles

detectCandleSignals(bars) ==
  IF Len(bars) < 2 THEN <<>>
  ELSE
    LET a == At(bars, Len(bars) - 1)
        b == At(bars, Len(bars) - 2)
        upperWick == a.h - Max2(a.o, a.c)
        lowerWick == Min2(a.o, a.c) - a.l
        bullEngulf == isBull(a) /\ isBear(b) /\ a.o <= b.c /\ a.c >= b.o
        bearEngulf == isBear(a) /\ isBull(b) /\ a.o >= b.c /\ a.c <= b.o
        hammer == /\ RatioGe(lowerWick, a, 55)
                  /\ RatioLe(upperWick, a, 25)
                  /\ RatioLe(bodySize(a), a, 35)
        shootingStar == /\ RatioGe(upperWick, a, 55)
                        /\ RatioLe(lowerWick, a, 25)
                        /\ RatioLe(bodySize(a), a, 35)
        inside == a.h <= b.h /\ a.l >= b.l
        outside == a.h >= b.h /\ a.l <= b.l
        one(cond, type, sev, title) ==
          IF cond THEN <<Sig(uid("candles", type), "candles", type, sev, title)>>
          ELSE <<>>
    IN one(bullEngulf, "bullish_engulfing", "med", "Bullish engulfing")
       \o one(bearEngulf, "bearish_engulfing", "med", "Bearish engulfing")
       \o one(hammer, "hammer", "med", "Hammer / long lower wick")
       \o one(shootingStar, "shooting_star", "med", "Shooting star / long upper wick")
       \o one(inside, "inside_bar", "info", "Inside bar (compression)")
       \o one(outside, "outside_bar", "info", "Outside bar (expansion)")

\* ---------------------------------------------------------------- RSI

\* A comparison with NaN is false.
NumLe(a, b) == IsNum(a) /\ IsNum(b) /\ a <= b
NumLt(a, b) == IsNum(a) /\ IsNum(b) /\ a < b

RsiSig(type, sev, rsi14, label) ==
  <<Sig(uid("momentum", type), "momentum", type, sev,
        "RSI " \o fmt(rsi14, 1) \o " (" \o label \o ")")>>

\* The RSI bands tested in another order: the weak and positive bands first.
rsiLevelSignalsWideFirst(rsi14) ==
  IF rsi14 = Null THEN <<>>
  ELSE IF NumLt(rsi14, 45) THEN RsiSig("rsi_weak", "info", rsi14, "weak momentum")
  ELSE IF NumLt(55, rsi14) THEN RsiSig("rsi_positive", "info", rsi14, "positive momentum")
  ELSE IF NumLe(rsi14, 35) THEN RsiSig("rsi_oversold", "med", rsi14, "oversold-ish")
  ELSE IF NumLe(65, rsi14) THEN RsiSig("rsi_overbought", "med", rsi14, "overbought-ish")
  ELSE <<>>

\* Lines 203-249: the if / else-if chain on rsi14.
rsiLevelSignals(rsi14) ==
  IF rsi14 = Null THEN <<>>
  ELSE IF NumLe(rsi14, 35) THEN RsiSig("rsi_oversold", "med", rsi14, "oversold-ish")
  ELSE IF NumLe(65, rsi14) THEN RsiSig("rsi_overbought", "med", rsi14, "overbought-ish")
  ELSE IF NumLt(rsi14, 45) THEN RsiSig("rsi_weak", "info", rsi14, "weak momentum")
  ELSE IF NumLt(55, rsi14) THEN RsiSig("rsi_positive", "info", rsi14, "positive momentum")
  ELSE <<>>

\* A divergence argument: `present` is FALSE for null; a missing type is "",
\* which `|| "none"` treats as it treats undefined.
NoDiv == [present |-> FALSE, type |-> "", strength |-> Undefined]

\* div?.type and div?.strength
divType(div) == IF div.present THEN div.type ELSE ""
divStrength(div) == IF div.present THEN div.strength ELSE Undefined

\* x || "none"
OrNone(x) == IF x = "" THEN "none" ELSE x

divergenceSeverityAbove(strength) == IF strength > 3 THEN "high" ELSE "med"
\* strength >= 3 ? "high" : "med"
divergenceSeverity(strength) == IF strength >= 3 THEN "high" ELSE "med"

\* Lines 251-265.
rsiDivergenceSignals(div) ==
  LET type == OrNone(divType(div))
      strength == Coalesce(n(divStrength(div)), 0)
  IN IF type # "none"
     THEN <<Sig(uid("momentum", "rsi_divergence"), "momentum", "rsi_divergence",
                divergenceSeverity(strength), "RSI divergence: " \o type)>>
     ELSE <<>>

detectRSISignals(rsi14, div) == rsiLevelSignals(rsi14) \o rsiDivergenceSignals(div)

\* ---------------------------------------------------------------- FVG

\* computeFVGs(bars, lookback = 80): the list in push order; at an index with
\* both gaps the bullish one is pushed first.
FvgLookback == 80

fvgAt(bars, i) ==
  LET prev == At(bars, i - 1)
      next == At(bars, i + 1)
  IN (IF prev.h < next.l
      THEN <<[side |-> "bullish", low |-> prev.h, high |-> next.l, atIndex |-> i]>>
      ELSE <<>>)
     \o (IF prev.l > next.h
         THEN <<[side |-> "bearish", low |-> next.h, high |-> prev.l, atIndex |-> i]>>
         ELSE <<>>)

RECURSIVE fvgLoop(_, _, _)
fvgLoop(bars, i, acc) ==
  IF i >= Len(bars) - 1 THEN acc
  ELSE fvgLoop(bars, i + 1, acc \o fvgAt(bars, i))

computeFVGs(bars) == fvgLoop(bars, Max2(1, Len(bars) - FvgLookback), <<>>)

\* fvgs.slice(-3).reverse()
lastThreeReversed(s) ==
  LET m == Min2(3, Len(s))
  IN [k \in 1..m |-> s[Len(s) - k + 1]]

detectFVGSignals(bars) ==
  IF Len(bars) = 0 THEN <<>>
  ELSE
    LET recent == lastThreeReversed(computeFVGs(bars))
    IN [k \in 1..Len(recent) |->
          Sig(uid("structure", "fvg_" \o recent[k].side \o "_" \o ToString(recent[k].atIndex)),
              "structure", "fvg", "info",
              "FVG " \o recent[k].side \o ": " \o fmt(recent[k].low, 2)
                \o "-" \o fmt(recent[k].high, 2))]

\* ---------------------------------------------------------------- liquidity

\* isSwingHigh(bars, i, left = 2, right = 2) and isSwingLow.
isSwingHighWeak(bars, i, left, right) ==
  /\ Has(bars, i)
  /\ \A k \in (i - left)..(i + right) :
       (k # i /\ Has(bars, k)) => ~(At(bars, k).h > At(bars, i).h)

isSwingHigh(bars, i, left, right) ==
  /\ Has(bars, i)
  /\ \A k \in (i - left)..(i + right) :
       (k # i /\ Has(bars, k)) => ~(At(bars, k).h >= At(bars, i).h)

isSwingLow(bars, i, left, right) ==
  /\ Has(bars, i)
  /\ \A k \in (i - left)..(i + right) :
       (k # i /\ Has(bars, k)) => ~(At(bars, k).l <= At(bars, i).l)

MinSweepBars == 10
SweepWindow == 30

\* The loop of lines 349-352: the last index of the scanned range that passes
\* the test, or -1.
sweepLook(bars) == Min2(SweepWindow, Len(bars) - 3)
sweepRange(bars) == (Len(bars) - sweepLook(bars))..(Len(bars) - 3)

LastOf(S) == IF S = {} THEN -1 ELSE CHOOSE i \in S : \A j \in S : j <= i

swingHighIdx(bars) == LastOf({i \in sweepRange(bars) : isSwingHigh(bars, i, 2, 2)})
swingLowIdx(bars) == LastOf({i \in sweepRange(bars) : isSwingLow(bars, i, 2, 2)})

\* lastBar.h > prevBar.h && lastBar.c < (lastBar.o + lastBar.c) / 2 && lastBar.c < lastBar.o
failedReclaim(prevBar, lastBar) ==
  /\ lastBar.h > prevBar.h
  /\ 2 * lastBar.c < lastBar.o + lastBar.c
  /\ lastBar.c < lastBar.o

detectLiquiditySweepSignals(bars) ==
  IF Len(bars) < MinSweepBars THEN <<>>
  ELSE
    LET lastBar == At(bars, Len(bars) - 1)
        prevBar == At(bars, Len(bars) - 2)
        hi == swingHighIdx(bars)
        lo == swingLowIdx(bars)
        sweptHigh == hi # -1 /\ lastBar.h > At(bars, hi).h /\ lastBar.c < At(bars, hi).h
        sweptLow == lo # -1 /\ lastBar.l < At(bars, lo).l /\ lastBar.c > At(bars, lo).l
    IN (IF sweptHigh
        THEN <<Sig(uid("liquidity", "sweep_high"), "liquidity", "liquidity_sweep_high",
                   "high", "Liquidity sweep above swing high (" \o fmt(At(bars, hi).h, 2) \o ")")>>
        ELSE <<>>)
       \o (IF sweptLow
           THEN <<Sig(uid("liquidity", "sweep_low"), "liquidity", "liquidity_sweep_low",
                      "high", "Liquidity sweep below swing low (" \o fmt(At(bars, lo).l, 2) \o ")")>>
           ELSE <<>>)
       \o (IF failedReclaim(prevBar, lastBar)
           THEN <<Sig(uid("liquidity", "failed_reclaim"), "liquidity", "failed_reclaim",
                      "med", "Failed reclaim / rejection candle")>>
           ELSE <<>>)

\* ---------------------------------------------------------------- MA crosses

\* ma.<field>: an absent field reads as undefined.
MAFields == {"sma20", "sma50", "sma200", "prev_sma20", "prev_sma50", "prev_sma200"}

crossUpStrict(prevA, prevB, a, b) ==
  IF prevA = Null \/ prevB = Null \/ a = Null \/ b = Null THEN FALSE
  ELSE prevA < prevB /\ a > b

crossUp(prevA, prevB, a, b) ==
  IF prevA = Null \/ prevB = Null \/ a = Null \/ b = Null THEN FALSE
  ELSE prevA <= prevB /\ a > b

crossDown(prevA, prevB, a, b) ==
  IF prevA = Null \/ prevB = Null \/ a = Null \/ b = Null THEN FALSE
  ELSE prevA >= prevB /\ a < b

detectMACrossSignals(ma) ==
  LET s20 == n(ma.sma20)
      s50 == n(ma.sma50)
      s200 == n(ma.sma200)
      p20 == n(ma.prev_sma20)
      p50 == n(ma.prev_sma50)
      p200 == n(ma.prev_sma200)
      one(cond, key, type, sev, title) ==
        IF cond THEN <<Sig(uid("trend", key), "trend", type, sev, title)>> ELSE <<>>
  IN one(crossUp(p20, p50, s20, s50), "sma20_cross_up_sma50", "ma_cross_up", "med",
         "20SMA crossed above 50SMA")
     \o one(crossDown(p20, p50, s20, s50), "sma20_cross_down_sma50", "ma_cross_down", "med",
            "20SMA crossed below 50SMA")
     \o one(crossUp(p50, p200, s50, s200), "golden_cross_50_200", "golden_cross", "low",
            "Golden cross (50SMA > 200SMA)")
     \o one(crossDown(p50, p200, s50, s200), "death_cross_50_200", "death_cross", "low",
            "Death cross (50SMA < 200SMA)")

\* ---------------------------------------------------------------- key levels

\* detectKeyLevelSignals: with a null spot it returns no signal; otherwise it
\* calls normalizeLevels, which signals.ts neither defines nor imports, and the
\* call raises a ReferenceError.
detectKeyLevelSignals(spot, keyLevels) ==
  IF spot = Null THEN Returned(<<>>)
  ELSE Thrown("ReferenceError: normalizeLevels is not defined")

\* ------------------------------------------------- detector calls

\* One call of detectMACrossSignals (SpecMA), detectRSISignals (SpecRSI) or
\* detectLiquiditySweepSignals (SpecLiq): `input` holds the arguments.

\* Moving-average inputs in half points: 98 is 49.0, 101 is 50.5.
MABase == 98
MASpan == 4
MAValues == {Null, Undefined} \cup MABase..(MABase + MASpan)

InitMA ==
  /\ pc = "call"
  /\ input \in [MAFields -> MAValues]
  /\ out = <<>>
  /\ ret = <<>>

CallMACross ==
  /\ pc = "call"
  /\ ret' = detectMACrossSignals(input)
  /\ pc' = "done"
  /\ UNCHANGED <<input, out>>

NextMA == CallMACross

SpecMA == InitMA /\ [][NextMA]_vars

\* RSI readings 0..MaxRSI and NaN; divergence verdicts with a type and a
\* strength that may be missing, null or NaN.
MaxRSI == 100
MaxStrength == 4
RSIValues == {Null, NaN} \cup 0..MaxRSI
DivTypes == {"none", "bullish", "bearish", ""}
DivStrengths == {Undefined, Null, NaN} \cup 0..MaxStrength
DivValues == {NoDiv} \cup [present : {TRUE}, type : DivTypes, strength : DivStrengths]

InitRSI ==
  /\ pc = "call"
  /\ input \in [rsi14 : RSIValues, rsi_divergence : DivValues]
  /\ out = <<>>
  /\ ret = <<>>

CallRSI ==
  /\ pc = "call"
  /\ ret' = detectRSISignals(input.rsi14, input.rsi_divergence)
  /\ pc' = "done"
  /\ UNCHANGED <<input, out>>

NextRSI == CallRSI

SpecRSI == InitRSI /\ [][NextRSI]_vars

\* Bar series for the sweep detector: flat bars at FlatPrice, up to two spike
\* bars (a higher high or a lower low) at chosen indices, and any well-formed
\* latest bar over the price grid.  The lengths sit on both sides of the
\* 10-bar minimum and of the length from which the 30-bar window binds.
FlatPrice == 109
PriceAbove == 3
Prices == (FlatPrice - 2)..(FlatPrice + PriceAbove)

WellFormedBars ==
  {b \in [o : Prices, h : Prices, l : Prices, c : Prices] :
     b.l <= Min2(b.o, b.c) /\ Max2(b.o, b.c) <= b.h}

FlatBar == Bar(FlatPrice, FlatPrice, FlatPrice, FlatPrice)

SpikeKinds == {"up1", "up2", "down1"}
SpikeBar(kind) ==
  CASE kind = "up1" -> Bar(FlatPrice, FlatPrice + 1, FlatPrice, FlatPrice)
    [] kind = "up2" -> Bar(FlatPrice, FlatPrice + 2, FlatPrice, FlatPrice)
    [] OTHER -> Bar(FlatPrice, FlatPrice, FlatPrice - 1, FlatPrice)

LiqLens == {MinSweepBars - 1, MinSweepBars, SweepWindow + 3, SweepWindow + 4}
SpikePlaces(len) == {1, 2, 3, 4, 5, len - 4, len - 3, len - 2}

\* The series of `len` bars with spike k1 at index p1, spike k2 at index p2
\* (an index of -1 places no spike) and `lastBar` at the end.
LiqSeries(len, p1, k1, p2, k2, lastBar) ==
  [j \in 1..len |->
     IF j = len THEN lastBar
     ELSE IF j - 1 = p2 THEN SpikeBar(k2)
     ELSE IF j - 1 = p1 THEN SpikeBar(k1)
     ELSE FlatBar]

InitLiq ==
  /\ pc = "call"
  /\ \E len \in LiqLens, lastBar \in WellFormedBars :
       \E p1 \in SpikePlaces(len) \cup {-1}, p2 \in SpikePlaces(len) \cup {-1} :
         \E k1 \in SpikeKinds, k2 \in SpikeKinds :
           /\ p1 <= p2
           /\ p1 = p2 => p1 = -1 /\ k1 = "up1" /\ k2 = "up1"
           /\ p1 = -1 => k1 = "up1"
           /\ input = LiqSeries(len, p1, k1, p2, k2, lastBar)
  /\ out = <<>>
  /\ ret = <<>>

CallLiquiditySweep ==
  /\ pc = "call"
  /\ ret' = detectLiquiditySweepSignals(input)
  /\ pc' = "done"
  /\ UNCHANGED <<input, out>>

NextLiq == CallLiquiditySweep

SpecLiq == InitLiq /\ [][NextLiq]_vars

\* ------------------------------------------------- buildSignals (SpecBuild)

\* One call of buildSignals on a BuildSignalsInput, a step per detector call
\* (lines 566-571) and one for the ranking.  No call is wrapped in try/catch:
\* an error thrown by a detector leaves buildSignals at once.

\* A series with three-bar imbalances, two pairs of them over the same zone.
GappySeries(lastBar) ==
  << Bar(100, 101, 100, 101), Bar(101, 104, 101, 104), Bar(103, 104, 103, 104),
     Bar(100, 101, 100, 101), Bar(101, 104, 101, 104), Bar(103, 104, 103, 104),
     FlatBar, FlatBar, FlatBar, lastBar >>

BuildBars ==
  {b \in WellFormedBars : b.l >= FlatPrice - 1 /\ b.h <= FlatPrice + 2}

BuildSeries ==
  {<<>>}
    \cup {LiqSeries(MinSweepBars, 5, "up1", -1, "up1", b) : b \in BuildBars}
    \cup {GappySeries(b) : b \in BuildBars}

AbsentMA == [f \in MAFields |-> Undefined]
CrossingMA ==
  [sma20 |-> 102, sma50 |-> 101, sma200 |-> 100,
   prev_sma20 |-> 98, prev_sma50 |-> 100, prev_sma200 |-> 100]

\* key_levels as the report builds them: support and resistance prices.
SomeLevels == [support |-> <<FlatPrice - 1>>, resistance |-> <<FlatPrice + 1>>]

BuildInputs ==
  [bars : BuildSeries,
   rsi14 : {Undefined, Null, 30, 50},
   rsi_divergence : {NoDiv,
                     [present |-> TRUE, type |-> "bullish", strength |-> 3],
                     [present |-> TRUE, type |-> "bearish", strength |-> 1]},
   has_ma : BOOLEAN,
   ma : {AbsentMA, CrossingMA},
   spot : {Undefined, Null, FlatPrice},
   key_levels : {SomeLevels}]

InitBuild ==
  /\ pc = "candles"
  /\ input \in BuildInputs
  /\ ~input.has_ma => input.ma = AbsentMA
  /\ out = <<>>
  /\ ret = <<>>

\* out.unshift(...batch): the batch goes in front of the candidates.
PushFirst(at, batch, next) ==
  /\ pc = at
  /\ out' = batch \o out
  /\ pc' = next
  /\ UNCHANGED <<input, ret>>

\* out.push(...batch), then on to the next line.
Push(at, batch, next) ==
  /\ pc = at
  /\ out' = out \o batch
  /\ pc' = next
  /\ UNCHANGED <<input, ret>>

PushCandles == Push("candles", detectCandleSignals(input.bars), "rsi")

PushRSI ==
  Push("rsi",
       detectRSISignals(Coalesce(input.rsi14, Null), input.rsi_divergence),
       "fvg")

PushFVG == Push("fvg", detectFVGSignals(input.bars), "liquidity")

PushLiquidity ==
  Push("liquidity", detectLiquiditySweepSignals(input.bars), "ma")

\* if (input.ma) out.push(...detectMACrossSignals(input.ma, timeframe))
PushMACross ==
  Push("ma", IF input.has_ma THEN detectMACrossSignals(input.ma) ELSE <<>>,
       "keyLevels")

\* Line 571: the error of detectKeyLevelSignals propagates out of buildSignals.
PushKeyLevels ==
  LET r == detectKeyLevelSignals(Coalesce(input.spot, Null), input.key_levels)
  IN IF r.threw = ""
     THEN Push("keyLevels", r.value, "rank")
     ELSE /\ pc = "keyLevels"
          /\ pc' = "threw"
          /\ UNCHANGED <<input, out, ret>>

NextBuild ==
  \/ PushCandles
  \/ PushRSI
  \/ PushFVG
  \/ PushLiquidity
  \/ PushMACross
  \/ PushKeyLevels
  \/ RankDedupeCap

SpecBuild == InitBuild /\ [][NextBuild]_vars

\* ------------------------------------------------- indicators (index.ts)

\* An entry of an indicator series: null, or a number kept as a fraction in
\* lowest terms.
NullVal == [k |-> "null", num |-> 0, den |-> 1]

RECURSIVE Gcd(_, _)
Gcd(a, b) == IF b = 0 THEN a ELSE Gcd(b, a % b)

Rat(a, b) ==
  LET g == Gcd(Abs(a), b)
  IN [k |-> "num", num |-> a \div g, den |-> b \div g]

OHLCV(date, open, high, low, close, volume) ==
  [date |-> date, open |-> open, high |-> high, low |-> low,
   close |-> close, volume |-> volume]

RECURSIVE SumTo(_, _)
SumTo(values, k) == IF k = 0 THEN 0 ELSE SumTo(values, k - 1) + values[k]

\* The other results of a division: NaN (0 / 0, or NaN carried along) and an
\* infinity with its sign in num.
NaNVal == [k |-> "nan", num |-> 0, den |-> 1]
InfVal(sign) == [k |-> "inf", num |-> sign, den |-> 1]

\* values[i], undefined past the end of the array.
Elem(values, i) == IF i < Len(values) THEN values[i + 1] ELSE Undefined

\* a - b on numbers; undefined and NaN give NaN.
Minus(a, b) == IF IsNum(a) /\ IsNum(b) THEN a - b ELSE NaN

\* sum / period.
Quot(sum, period) ==
  IF ~IsNum(sum) THEN NaNVal
  ELSE IF period = 0
       THEN (IF sum = 0 THEN NaNVal ELSE InfVal(IF sum > 0 THEN 1 ELSE -1))
  ELSE IF period < 0 THEN Rat(-sum, -period)
  ELSE Rat(sum, period)

\* One iteration of the loop of sma (lines 144-146) at index i, from the
\* running sum and the entries of out so far: an entry the loop does not
\* assign keeps the null of Array(values.length).fill(null).
smaStepLate(values, period, i, before) ==
  LET added == IF IsNum(before.sum) THEN before.sum + values[i + 1] ELSE NaN
      kept == IF i > period THEN Minus(added, Elem(values, i - period))
              ELSE added
  IN [sum |-> kept,
      out |-> Append(before.out, IF i >= period - 1 THEN Quot(kept, period)
                                 ELSE NullVal)]

smaStep(values, period, i, before) ==
  LET added == IF IsNum(before.sum) THEN before.sum + values[i + 1] ELSE NaN
      kept == IF i >= period THEN Minus(added, Elem(values, i - period))
              ELSE added
  IN [sum |-> kept,
      out |-> Append(before.out, IF i >= period - 1 THEN Quot(kept, period)
                                 ELSE NullVal)]

\* Iterations from .. to of the loop, in index order: those up to `mid` are
\* run to their end state `half`, then the rest from it.
RECURSIVE smaLoop(_, _, _, _, _)
smaLoop(values, period, from, to, before) ==
  IF from > to THEN before
  ELSE IF from = to THEN smaStep(values, period, from, before)
  ELSE LET mid == (from + to) \div 2
       IN CHOOSE after \in
            {smaLoop(values, period, mid + 1, to, half) :
               half \in {smaLoop(values, period, from, mid, before)}} : TRUE

sma(values, period) ==
  smaLoop(values, period, 0, Len(values) - 1, [sum |-> 0, out |-> <<>>]).out

Max3(a, b, c) == Max2(a, Max2(b, c))

trueRange(prevClose, high, low) ==
  Max3(high - low, Abs(high - prevClose), Abs(low - prevClose))

\* Wilder smoothing: (prev * (period - 1) + trVal) / period.
wilderNext(prev, trVal, period) ==
  Rat(prev.num * (period - 1) + trVal * prev.den, prev.den * period)

RECURSIVE atrFrom(_, _, _, _, _)
atrFrom(tr, period, i, prev, acc) ==
  IF i > Len(tr) THEN acc
  ELSE LET next == wilderNext(prev, tr[i], period)
       IN atrFrom(tr, period, i + 1, next, Append(acc, next))

\* atrWilder(bars, period = 14), period >= 1.  tr[i] is the true range of bar
\* i against bar i - 1; out[period] is the mean of the first `period` of them.
atrWilder(bars, period) ==
  IF Len(bars) < period + 1 THEN [j \in 1..Len(bars) |-> NullVal]
  ELSE
    LET tr == [i \in 1..(Len(bars) - 1) |->
                 trueRange(bars[i].close, bars[i + 1].high, bars[i + 1].low)]
        first == Rat(SumTo(tr, period), period)
    IN atrFrom(tr, period, period + 1, first,
               [j \in 1..period |-> NullVal] \o <<first>>)

\* ------------------------------------------------- daily report (SpecReport)

\* generateDailyOutlookReport after the bars are fetched: the history check,
\* then the indicator block whose last values go into the payload.
MinReportBars == 60
AtrPeriod == 14

\* Fetched series: bars of a fixed high and low around FlatPrice whose closes
\* follow a pattern; any length up to MaxReportBars.
MaxReportBars == 61
ClosePatterns == {"flat", "zigzag", "step"}

PatternClose(pattern, j, len) ==
  CASE pattern = "flat" -> FlatPrice
    [] pattern = "zigzag" -> FlatPrice + (j % 3) - 1
    [] OTHER -> IF 2 * j <= len THEN FlatPrice - 1 ELSE FlatPrice + 1

ReportSeries(len, pattern) ==
  [j \in 1..len |->
     OHLCV(j, FlatPrice, FlatPrice + 1, FlatPrice - 1,
           PatternClose(pattern, j, len), 1000)]

InitReport ==
  /\ pc = "fetched"
  /\ \E len \in 0..MaxReportBars, pattern \in ClosePatterns :
       input = ReportSeries(len, pattern)
  /\ out = <<>>
  /\ ret = <<>>

\* if (bars.length < 60) throw new Error("not_enough_ohlcv_history")
HistoryTooShort(bars) == Len(bars) < MinReportBars

CheckHistory ==
  /\ pc = "fetched"
  /\ pc' = IF HistoryTooShort(input) THEN "threw" ELSE "indicators"
  /\ UNCHANGED <<input, out, ret>>

LastOr(series, default) ==
  IF Len(series) = 0 THEN default ELSE series[Len(series)]

\* Lines 738-754, and the fields of the payload they feed.
ComputeIndicators ==
  /\ pc = "indicators"
  /\ LET closes == [j \in 1..Len(input) |-> input[j].close]
     IN ret' = [sma20 |-> LastOr(sma(closes, 20), NullVal),
                sma50 |-> LastOr(sma(closes, 50), NullVal),
                sma200 |-> LastOr(sma(closes, 200), NullVal),
                atr14 |-> LastOr(atrWilder(input, AtrPeriod), NullVal)]
  /\ pc' = "done"
  /\ UNCHANGED <<input, out>>

NextReport == CheckHistory \/ ComputeIndicators

SpecReport == InitReport /\ [][NextReport]_vars

\* ------------------------------------------------- claims on the detectors

WithType(list, types) == SelectSeq(list, LAMBDA s : s.type \in types)
HasType(list, type) == \E i \in DOMAIN list : list[i].type = type

Missing(x) == x = Null \/ x = Undefined

\* C5: detectMACrossSignals emits no cross signal for a pair when any of the
\* pair's four inputs is null or absent.
C5_NullInputSkipsCross ==
  pc = "done" =>
    /\ (\E f \in {"sma20", "sma50", "prev_sma20", "prev_sma50"} : Missing(input[f]))
         => WithType(ret, {"ma_cross_up", "ma_cross_down"}) = <<>>
    /\ (\E f \in {"sma50", "sma200", "prev_sma50", "prev_sma200"} : Missing(input[f]))
         => WithType(ret, {"golden_cross", "death_cross"}) = <<>>

\* C6: on numeric inputs the cross-up of a pair is emitted exactly when
\* prevA <= prevB and a > b, the cross-down exactly when prevA >= prevB and
\* a < b, and never both.
PairRule(up, down, prevA, prevB, a, b) ==
  (IsNum(prevA) /\ IsNum(prevB) /\ IsNum(a) /\ IsNum(b)) =>
    /\ HasType(ret, up) <=> (prevA <= prevB /\ a > b)
    /\ HasType(ret, down) <=> (prevA >= prevB /\ a < b)
    /\ ~(HasType(ret, up) /\ HasType(ret, down))
    /\ Len(WithType(ret, {up, down})) <= 1

C6_CrossRule ==
  pc = "done" =>
    /\ PairRule("ma_cross_up", "ma_cross_down",
                input.prev_sma20, input.prev_sma50, input.sma20, input.sma50)
    /\ PairRule("golden_cross", "death_cross",
                input.prev_sma50, input.prev_sma200, input.sma50, input.sma200)

\* The example: prev 49 / 50, current 51 / 50.5 (in half points) gives the
\* bullish cross.
C6_Witness ==
  /\ pc = "done"
  /\ input.prev_sma20 = 98 /\ input.prev_sma50 = 100
  /\ input.sma20 = 102 /\ input.sma50 = 101
  /\ HasType(ret, "ma_cross_up")
  /\ ~HasType(ret, "ma_cross_down")

RsiLevelTypes == {"rsi_oversold", "rsi_overbought", "rsi_weak", "rsi_positive"}

Only(list, type, sev) ==
  Len(list) = 1 /\ list[1].type = type /\ list[1].severity = sev

\* C7: at most one RSI-level signal, chosen in priority order: r <= 35
\* oversold (med), else r >= 65 overbought (med), else r < 45 weak (info), else
\* r > 55 positive (info); none for 45 <= r <= 55 and none for a null RSI.
C7_RsiBands ==
  pc = "done" =>
    LET r == input.rsi14
        lev == WithType(ret, RsiLevelTypes)
    IN /\ Len(lev) <= 1
       /\ r = Null => lev = <<>>
       /\ IsNum(r) =>
            IF r <= 35 THEN Only(lev, "rsi_oversold", "med")
            ELSE IF r >= 65 THEN Only(lev, "rsi_overbought", "med")
            ELSE IF r < 45 THEN Only(lev, "rsi_weak", "info")
            ELSE IF r > 55 THEN Only(lev, "rsi_positive", "info")
            ELSE lev = <<>>

\* An RSI of exactly 35 has been classified: oversold, not weak.
C7_Witness ==
  /\ pc = "done"
  /\ input.rsi14 = 35
  /\ HasType(ret, "rsi_oversold")

\* C8: exactly one rsi_divergence signal when the type is bullish or bearish,
\* none when it is none or missing; its severity is high exactly when the
\* strength is a number >= 3 (a missing or non-numeric strength counts as 0).
C8_DivergenceSeverity ==
  pc = "done" =>
    LET div == input.rsi_divergence
        sigs == WithType(ret, {"rsi_divergence"})
    IN IF div.present /\ div.type \in {"bullish", "bearish"}
       THEN /\ Len(sigs) = 1
            /\ sigs[1].severity =
                 (IF IsNum(div.strength) /\ div.strength >= 3 THEN "high" ELSE "med")
       ELSE sigs = <<>>

\* A bullish divergence of strength exactly 3 has been reported as high.
C8_Witness ==
  /\ pc = "done"
  /\ input.rsi_divergence.present
  /\ input.rsi_divergence.type = "bullish"
  /\ input.rsi_divergence.strength = 3
  /\ HasType(ret, "rsi_divergence")
  /\ \A i \in DOMAIN ret : ret[i].type = "rsi_divergence" => ret[i].severity = "high"

\* A strict local maximum of the highs over 2 bars on each side.
StrictLocalMax(bars, i) ==
  /\ i - 2 >= 0 /\ i + 2 <= Len(bars) - 1
  /\ \A k \in {i - 2, i - 1, i + 1, i + 2} : At(bars, k).h < At(bars, i).h

\* The sweep-high rule over a range of candidate indices: when the last strict
\* local maximum of the range has high H and the latest bar has high > H and
\* close < H, a liquidity_sweep_high signal is emitted.
SweepHighRule(bars, from, to) ==
  LET swings == {i \in from..to : StrictLocalMax(bars, i)}
      lastBar == At(bars, Len(bars) - 1)
  IN swings # {} =>
       LET H == At(bars, LastOf(swings)).h
       IN (lastBar.h > H /\ lastBar.c < H) => HasType(ret, "liquidity_sweep_high")

SweepsAreHigh ==
  \A i \in DOMAIN ret :
    ret[i].type \in {"liquidity_sweep_high", "liquidity_sweep_low"}
      => ret[i].severity = "high"

\* C9 as claimed: with at least 10 bars, the rule holds for the most recent
\* swing high among the last 30 bars, and every sweep signal has severity high.
C9_SweepHighLast30 ==
  (pc = "done" /\ Len(input) >= 10) =>
    /\ SweepHighRule(input, Max2(0, Len(input) - 30), Len(input) - 1)
    /\ SweepsAreHigh

\* C9 as amended: the rule holds for the most recent swing high among the bar
\* indices max(3, length - 30) .. length - 3, and every sweep signal has
\* severity high.
C9_SweepHighScanned ==
  (pc = "done" /\ Len(input) >= 10) =>
    /\ SweepHighRule(input, Max2(3, Len(input) - 30), Len(input) - 3)
    /\ SweepsAreHigh

\* The example: a swing high at 110 inside the scanned range, the latest bar
\* with high 112 and close 108, and the sweep-high signal with severity high.
C9_Witness ==
  /\ pc = "done"
  /\ Len(input) >= 10
  /\ \E i \in Max2(3, Len(input) - 30)..(Len(input) - 3) :
       /\ StrictLocalMax(input, i)
       /\ At(input, i).h = 110
       /\ \A j \in (i + 1)..(Len(input) - 3) : ~StrictLocalMax(input, j)
  /\ At(input, Len(input) - 1).h = 112
  /\ At(input, Len(input) - 1).c = 108
  /\ \E k \in DOMAIN ret :
       ret[k].type = "liquidity_sweep_high" /\ ret[k].severity = "high"

\* C10: failed_reclaim is emitted only when the latest bar has a higher high
\* than the previous bar, closes below its open and closes in the lower half
\* of its own range, close < (high + low) / 2.
C10_FailedReclaimLowerHalf ==
  (pc = "done" /\ HasType(ret, "failed_reclaim")) =>
    LET lastBar == At(input, Len(input) - 1)
        prevBar == At(input, Len(input) - 2)
    IN /\ lastBar.h > prevBar.h
       /\ lastBar.c < lastBar.o
       /\ 2 * lastBar.c < lastBar.h + lastBar.l

\* C3: a detector's failure does not abort the synthesis: when the key-level
\* detector fails (the spot is non-null), buildSignals still returns, and
\* returns the other detectors' signals sorted, deduplicated and capped.
C3_DetectorFailureIsolated ==
  (pc \in {"done", "threw"} /\ Coalesce(input.spot, Null) # Null) =>
    /\ Range(Reference(out)) \subseteq Range(ret)
    /\ ret = Reference(out)

\* C4: with a series shorter than some detector's minimum window (fewer than
\* 60 bars included) generateDailyOutlookReport raises no error and still
\* assembles the report.
C4_ShortSeriesStillReports ==
  Len(input) < 60 => pc # "threw"

\* ------------------------------------------------- key levels (SpecKey)

\* One call of detectKeyLevelSignals: a spot (or none) and key levels with
\* support and resistance prices on both sides of it, near and far.
MaxSpot == 102
Spots == {Null} \cup 98..MaxSpot
LevelLists == {<<>>, <<99>>, <<100>>, <<90, 99>>, <<101, 120>>, <<100, 97, 103>>}
KeyLevelValues == [support : LevelLists, resistance : LevelLists]

InitKey ==
  /\ pc = "call"
  /\ input \in [spot : Spots, key_levels : KeyLevelValues]
  /\ out = <<>>
  /\ ret = <<>>

CallKeyLevels ==
  /\ pc = "call"
  /\ LET r == detectKeyLevelSignals(input.spot, input.key_levels)
     IN /\ ret' = r.value
        /\ pc' = IF r.threw = "" THEN "done" ELSE "threw"
  /\ UNCHANGED <<input, out>>

NextKey == CallKeyLevels

SpecKey == InitKey /\ [][NextKey]_vars

\* The levels of a list on one side of the spot.
AtOrBelow(levels, spot) == {levels[i] : i \in DOMAIN levels} \cap 0..spot
AtOrAbove(levels, spot) == {x \in {levels[i] : i \in DOMAIN levels} : x >= spot}
Greatest(S) == CHOOSE x \in S : \A y \in S : y <= x
Smallest(S) == CHOOSE x \in S : \A y \in S : x <= y

\* |level - spot| <= 1% of spot.
WithinOnePercent(level, spot) == 100 * Abs(level - spot) <= Abs(spot)

ProximitySeverity(level, spot) ==
  IF WithinOnePercent(level, spot) THEN "high" ELSE "info"

ProximityRule(type, side, spot) ==
  IF side = {} THEN ~HasType(ret, type)
  ELSE \E k \in DOMAIN ret :
         /\ ret[k].type = type
         /\ ret[k].severity = ProximitySeverity(IF type = "closest_support"
                                                THEN Greatest(side)
                                                ELSE Smallest(side), spot)

\* C11: for a non-null spot the closest_support signal is there for the
\* greatest support <= spot and the closest_resistance signal for the
\* smallest resistance >= spot, each high exactly when within 1% of the spot
\* and info otherwise; a null spot or no levels gives no proximity signal.
C11_ClosestLevels ==
  pc # "call" =>
    /\ pc = "done"
    /\ IF input.spot = Null
       THEN ~HasType(ret, "closest_support") /\ ~HasType(ret, "closest_resistance")
       ELSE /\ ProximityRule("closest_support",
                             AtOrBelow(input.key_levels.support, input.spot),
                             input.spot)
            /\ ProximityRule("closest_resistance",
                             AtOrAbove(input.key_levels.resistance, input.spot),
                             input.spot)

\* ------------------------------------------------- pivots (SpecPivots)

\* The inner loop of pivots from bar k on (lines 240-245): a bar of the window
\* other than i with low <= lo clears isLow, one with high >= hi clears
\* isHigh, and the loop stops once both are cleared.
RECURSIVE pivotScanTies(_, _, _, _, _, _)
pivotScanTies(bars, i, k, to, isLow, isHigh) ==
  IF k > to THEN [isLow |-> isLow, isHigh |-> isHigh]
  ELSE IF k = i THEN pivotScanTies(bars, i, k + 1, to, isLow, isHigh)
  ELSE LET low2 == isLow /\ ~(At(bars, k).low < At(bars, i).low)
           high2 == isHigh /\ ~(At(bars, k).high > At(bars, i).high)
       IN IF ~low2 /\ ~high2 THEN [isLow |-> FALSE, isHigh |-> FALSE]
          ELSE pivotScanTies(bars, i, k + 1, to, low2, high2)

RECURSIVE pivotScanHighTies(_, _, _, _, _, _)
pivotScanHighTies(bars, i, k, to, isLow, isHigh) ==
  IF k > to THEN [isLow |-> isLow, isHigh |-> isHigh]
  ELSE IF k = i THEN pivotScanHighTies(bars, i, k + 1, to, isLow, isHigh)
  ELSE LET low2 == isLow /\ ~(At(bars, k).low <= At(bars, i).low)
           high2 == isHigh /\ ~(At(bars, k).high > At(bars, i).high)
       IN IF ~low2 /\ ~high2 THEN [isLow |-> FALSE, isHigh |-> FALSE]
          ELSE pivotScanHighTies(bars, i, k + 1, to, low2, high2)

RECURSIVE pivotScan(_, _, _, _, _, _)
pivotScan(bars, i, k, to, isLow, isHigh) ==
  IF k > to THEN [isLow |-> isLow, isHigh |-> isHigh]
  ELSE IF k = i THEN pivotScan(bars, i, k + 1, to, isLow, isHigh)
  ELSE LET low2 == isLow /\ ~(At(bars, k).low <= At(bars, i).low)
           high2 == isHigh /\ ~(At(bars, k).high >= At(bars, i).high)
       IN IF ~low2 /\ ~high2 THEN [isLow |-> FALSE, isHigh |-> FALSE]
          ELSE pivotScan(bars, i, k + 1, to, low2, high2)

Pivot(i, date, price) == [i |-> i, date |-> date, price |-> price]

\* The outer loop from bar i on, pushing to lows and highs.
RECURSIVE pivotsLoop(_, _, _, _, _)
pivotsLoop(bars, lookback, i, lows, highs) ==
  IF ~(i < Len(bars) - lookback) THEN [lows |-> lows, highs |-> highs]
  ELSE LET f == pivotScan(bars, i, i - lookback, i + lookback, TRUE, TRUE)
           b == At(bars, i)
       IN pivotsLoop(bars, lookback, i + 1,
                     IF f.isLow THEN Append(lows, Pivot(i, b.date, b.low))
                     ELSE lows,
                     IF f.isHigh THEN Append(highs, Pivot(i, b.date, b.high))
                     ELSE highs)

\* pivots(bars, lookback = 3), lookback >= 0.
pivots(bars, lookback) == pivotsLoop(bars, lookback, lookback, <<>>, <<>>)

\* One call of pivots: every series of up to MaxPivotBars bars whose highs and
\* lows lie on two price levels (ties and strict extremes both occur), and
\* every lookback up to MaxLookback.
MaxPivotBars == 6
MaxLookback == 2
PivotShapes == {<<1, 1>>, <<2, 1>>, <<2, 2>>}
HighLowBar(j, high, low) == OHLCV(j, low, high, low, high, 1000)
PivotSeries ==
  UNION {{[j \in 1..len |-> HighLowBar(j, shape[j][1], shape[j][2])] :
            shape \in [1..len -> PivotShapes]} : len \in 0..MaxPivotBars}

InitPivots ==
  /\ pc = "call"
  /\ input \in [bars : PivotSeries, lookback : 0..MaxLookback]
  /\ out = <<>>
  /\ ret = <<>>

CallPivots ==
  /\ pc = "call"
  /\ ret' = pivots(input.bars, input.lookback)
  /\ pc' = "done"
  /\ UNCHANGED <<input, out>>

NextPivots == CallPivots

SpecPivots == InitPivots /\ [][NextPivots]_vars

\* The bar indices a pivot list names, and whether it is in bar order.
Indices(list) == {list[k].i : k \in DOMAIN list}
Ascending(list) ==
  \A a, b \in DOMAIN list : a < b => list[a].i < list[b].i

Window(i, lookback) == ((i - lookback)..(i + lookback)) \ {i}
InReach(bars, i, lookback) == lookback <= i /\ i < Len(bars) - lookback

StrictHighs(bars, lookback) ==
  {i \in 0..(Len(bars) - 1) :
     /\ InReach(bars, i, lookback)
     /\ \A k \in Window(i, lookback) : At(bars, k).high < At(bars, i).high}

StrictLows(bars, lookback) ==
  {i \in 0..(Len(bars) - 1) :
     /\ InReach(bars, i, lookback)
     /\ \A k \in Window(i, lookback) : At(bars, k).low > At(bars, i).low}

\* C12: pivots lists i as a swing high exactly when lookback <= i <
\* length - lookback and every other bar of [i - lookback, i + lookback] has a
\* strictly lower high, as a swing low exactly when every other bar of the
\* window has a strictly higher low; both lists are in ascending bar order.
C12_PivotRule ==
  pc = "done" =>
    /\ Indices(ret.highs) = StrictHighs(input.bars, input.lookback)
    /\ Indices(ret.lows) = StrictLows(input.bars, input.lookback)
    /\ Ascending(ret.highs) /\ Ascending(ret.lows)
    /\ Len(ret.highs) = Cardinality(Indices(ret.highs))
    /\ Len(ret.lows) = Cardinality(Indices(ret.lows))

\* A series with a swing high and a bar that only ties the highest high of
\* its window, which is not listed.
C12_Witness ==
  /\ pc = "done"
  /\ input.lookback = 1
  /\ Len(ret.highs) >= 1
  /\ Len(ret.lows) >= 1
  /\ \E i \in 1..(Len(input.bars) - 2) :
       /\ At(input.bars, i).high = At(input.bars, i + 1).high
       /\ At(input.bars, i).high > At(input.bars, i - 1).high
       /\ i \notin Indices(ret.highs)

\* The mirrored series: order reversed, high = -low and low = -high.
Mirrored(bars) ==
  [j \in 1..Len(bars) |->
     LET b == bars[Len(bars) + 1 - j]
     IN OHLCV(j, -b.close, -b.low, -b.high, -b.open, b.volume)]

MirrorIndex(bars, S) == {Len(bars) - 1 - i : i \in S}

\* C13: index n-1-i is a swing high of the mirrored series exactly when i is
\* a swing low of the original, and a swing low exactly when i is a swing
\* high of the original.
C13_PivotSymmetry ==
  pc = "done" =>
    LET m == pivots(Mirrored(input.bars), input.lookback)
    IN /\ Indices(m.highs) = MirrorIndex(input.bars, Indices(ret.lows))
       /\ Indices(m.lows) = MirrorIndex(input.bars, Indices(ret.highs))

\* A series with a swing low and no swing high, whose mirror image has the
\* swing high at the mirrored index and no swing low.
C13_Witness ==
  /\ pc = "done"
  /\ input.lookback = 2
  /\ Indices(ret.lows) = {2}
  /\ Len(input.bars) = 6
  /\ ret.highs = <<>>
  /\ Indices(pivots(Mirrored(input.bars), input.lookback).highs) = {3}

\* ------------------------------------------------- detectGaps (SpecGaps)

LookForwardBars == 40
GapsKept == 10

Overlaps(b, zone_low, zone_high) == b.low <= zone_high /\ b.high >= zone_low

\* The fill loop from bar k on (lines 284-294): an overlapping bar makes the
\* status partial, a bar through the far edge makes it filled and ends the
\* loop.
RECURSIVE gapScanReset(_, _, _, _, _, _, _)
gapScanReset(bars, k, end, gapUp, zone_low, zone_high, status) ==
  IF k > end THEN status
  ELSE LET b == At(bars, k)
           tradedLow == Overlaps(b, zone_low, zone_high)
           fullyFilled == IF gapUp THEN b.low <= zone_low ELSE b.high >= zone_high
       IN IF fullyFilled THEN "filled"
          ELSE IF tradedLow
          THEN gapScanReset(bars, k + 1, end, gapUp, zone_low, zone_high, "partial")
          ELSE gapScanReset(bars, k + 1, end, gapUp, zone_low, zone_high, "unfilled")

RECURSIVE gapScan(_, _, _, _, _, _, _)
gapScan(bars, k, end, gapUp, zone_low, zone_high, status) ==
  IF k > end THEN status
  ELSE LET b == At(bars, k)
           tradedLow == Overlaps(b, zone_low, zone_high)
           fullyFilled == IF gapUp THEN b.low <= zone_low ELSE b.high >= zone_high
       IN IF fullyFilled THEN "filled"
          ELSE IF tradedLow
          THEN gapScan(bars, k + 1, end, gapUp, zone_low, zone_high, "partial")
          ELSE gapScan(bars, k + 1, end, gapUp, zone_low, zone_high, status)

\* The body of the loop for bar i (lines 268-305): the gaps it pushes.
gapAt(bars, i, lookForwardBars) ==
  LET prev == At(bars, i - 1)
      cur == At(bars, i)
      gapUp == cur.open > prev.high
      gapDown == cur.open < prev.low
      zone_low == IF gapUp THEN prev.high ELSE cur.high
      zone_high == IF gapUp THEN cur.low ELSE prev.low
      end == Min2(Len(bars) - 1, i + lookForwardBars)
  IN IF ~gapUp /\ ~gapDown THEN <<>>
     ELSE IF zone_high <= zone_low THEN <<>>
     ELSE << [date |-> cur.date,
              type |-> IF gapUp THEN "gap_up" ELSE "gap_down",
              prev_close |-> prev.close,
              open |-> cur.open,
              zone_low |-> zone_low,
              zone_high |-> zone_high,
              size_pct |-> Rat(Abs(cur.open - prev.close), prev.close),
              status |-> gapScan(bars, i, end, gapUp, zone_low, zone_high,
                                 "unfilled")] >>

\* The loop over i = 1 .. length - 1: the gaps pushed, in bar order.
gapsLoop(bars, lookForwardBars) ==
  LET perBar == [i \in 1..(Len(bars) - 1) |-> gapAt(bars, i, lookForwardBars)]
      pushed == SelectSeq(perBar, LAMBDA s : s # <<>>)
  IN [x \in DOMAIN pushed |-> pushed[x][1]]

\* list.slice(-count)
sliceLast(list, count) ==
  SubSeq(list, Max2(1, Len(list) - count + 1), Len(list))

detectGaps(bars, lookForwardBars) ==
  sliceLast(gapsLoop(bars, lookForwardBars), GapsKept)

\* A series that grows a bar at a time, detectGaps re-run after each bar.  The
\* first FreeBars bars and the last TailBars bars take any of four shapes; the
\* bars between them stay above every zone, so that the bars of the tail lie
\* on both sides of the end of the windows of the gaps made at the start.
\* A bar's date is its position in the series.
FreeBars == 3
TailBars == 3
MaxGapBars == LookForwardBars + 1 + TailBars

BaseBar(j) == OHLCV(j, 10, 11, 9, 10, 1000)
UpBar(j) == OHLCV(j, 13, 14, 12, 13, 1000)
QuietBar(j) == OHLCV(j, 14, 15, 13, 14, 1000)
DipBar(j) == OHLCV(j, 12, 13, 10, 12, 1000)

GapBars(j) ==
  IF j <= FreeBars \/ j > LookForwardBars + 1
  THEN {BaseBar(j), UpBar(j), QuietBar(j), DipBar(j)}
  ELSE {QuietBar(j)}

InitGaps ==
  /\ pc = "run"
  /\ input = <<>>
  /\ out = <<>>
  /\ ret = detectGaps(<<>>, LookForwardBars)

AppendBar ==
  /\ pc = "run"
  /\ Len(input) < MaxGapBars
  /\ \E b \in GapBars(Len(input) + 1) : input' = Append(input, b)
  /\ ret' = detectGaps(input', LookForwardBars)
  /\ UNCHANGED <<pc, out>>

NextGaps == AppendBar

SpecGaps == InitGaps /\ [][NextGaps]_vars

\* The bars after a gap's creation bar inside its look-forward window; the
\* creation bar of a reported gap is the bar at index date - 1.
CreatedAt(g) == g.date - 1
LaterBars(bars, g) ==
  (CreatedAt(g) + 1)..Min2(Len(bars) - 1, CreatedAt(g) + LookForwardBars)
CrossesFarEdge(b, g) ==
  IF g.type = "gap_up" THEN b.low <= g.zone_low ELSE b.high >= g.zone_high

\* C14: a reported gap is unfilled when no later bar of its window overlaps
\* its zone, partial only when some later bar overlaps the zone without fully
\* crossing it, filled only when some later bar crosses the far edge.
C14_GapStatus ==
  \A x \in DOMAIN ret :
    LET g == ret[x]
        later == LaterBars(input, g)
    IN /\ (\A k \in later : ~Overlaps(At(input, k), g.zone_low, g.zone_high))
            => g.status = "unfilled"
       /\ g.status = "partial" =>
            \E k \in later : /\ Overlaps(At(input, k), g.zone_low, g.zone_high)
                             /\ ~CrossesFarEdge(At(input, k), g)
       /\ g.status = "filled" =>
            \E k \in later : CrossesFarEdge(At(input, k), g)

\* C15: every bar that opens above the previous high is reported as a gap_up
\* from the previous high to its open, every bar that opens below the
\* previous low as a gap_down from its open to the previous low.
C15_GapZone ==
  \A i \in 1..(Len(input) - 1) :
    LET prev == At(input, i - 1)
        cur == At(input, i)
    IN /\ cur.open > prev.high =>
            \E x \in DOMAIN ret :
              /\ ret[x].date = cur.date /\ ret[x].type = "gap_up"
              /\ ret[x].zone_low = prev.high /\ ret[x].zone_high = cur.open
       /\ cur.open < prev.low =>
            \E x \in DOMAIN ret :
              /\ ret[x].date = cur.date /\ ret[x].type = "gap_down"
              /\ ret[x].zone_low = cur.open /\ ret[x].zone_high = prev.low

StatusRank(status) ==
  CASE status = "unfilled" -> 0 [] status = "partial" -> 1 [] OTHER -> 2

\* C16: as bars are appended and detectGaps is re-run, the status of the gap
\* created at a given bar never moves backward in unfilled < partial <
\* filled, stays filled once filled, and is not changed by a bar more than 40
\* bars after the creation bar.
C16_GapStatusMonotone ==
  [][\A x \in DOMAIN ret : \A y \in DOMAIN ret' :
       ret[x].date = ret'[y].date =>
         /\ StatusRank(ret[x].status) <= StatusRank(ret'[y].status)
         /\ ret[x].status = "filled" => ret'[y].status = "filled"
         /\ Len(input') - 1 > CreatedAt(ret[x]) + 40 =>
              ret'[y].status = ret[x].status]_vars

\* A gap made at bar 1, overlapped but not filled inside its window, that is
\* still partial after a bar that would have filled it arrived 41 bars after
\* the creation bar.
C16_Witness ==
  /\ Len(input) = 43
  /\ At(input, 42).low <= 11
  /\ \E k \in 2..41 : At(input, k).low = 12
  /\ \E x \in DOMAIN ret :
       /\ ret[x].date = 2 /\ ret[x].type = "gap_up" /\ ret[x].zone_low = 11
       /\ ret[x].status = "partial"

\* ------------------------------------------------- detectFVG (SpecFVG)

FvgLookForward == 40
FvgsKept == 12

\* Lines 433-437 and 445-449: the scan from bar k on for a bar that overlaps
\* the zone.
RECURSIVE fvgRebalanced(_, _, _, _, _)
fvgRebalanced(bars, k, end, zone_low, zone_high) ==
  IF k > end THEN FALSE
  ELSE IF Overlaps(At(bars, k), zone_low, zone_high) THEN TRUE
  ELSE fvgRebalanced(bars, k + 1, end, zone_low, zone_high)

FVGOf(created_date, type, zone_low, zone_high, rebalanced) ==
  [created_date |-> created_date, type |-> type, zone_low |-> zone_low,
   zone_high |-> zone_high, rebalanced |-> rebalanced]

\* The body of the loop for bar i (lines 426-451): the bullish test, then the
\* bearish one.
fvgPushed(bars, i, lookForward) ==
  LET c1 == At(bars, i - 2)
      c3 == At(bars, i)
      end == Min2(Len(bars) - 1, i + lookForward)
  IN (IF c3.low > c1.high
      THEN << FVGOf(c3.date, "bullish", c1.high, c3.low,
                    fvgRebalanced(bars, i, end, c1.high, c3.low)) >>
      ELSE <<>>)
     \o
     (IF c3.high < c1.low
      THEN << FVGOf(c3.date, "bearish", c3.high, c1.low,
                    fvgRebalanced(bars, i, end, c3.high, c1.low)) >>
      ELSE <<>>)

\* out after the loop over i = 2 .. length - 1 (perBar[x] is bar x + 1).
RECURSIVE concatAll(_, _)
concatAll(lists, k) ==
  IF k = 0 THEN <<>> ELSE concatAll(lists, k - 1) \o lists[k]

detectFVG(bars, lookForward) ==
  LET perBar == [x \in 1..(Len(bars) - 2) |-> fvgPushed(bars, x + 1, lookForward)]
  IN sliceLast(concatAll(perBar, Len(perBar)), FvgsKept)

\* One call of detectFVG on every series of up to MaxFvgBars bars of the four
\* shapes.
MaxFvgBars == 5
FvgSeries ==
  UNION {{[j \in 1..len |->
             CASE shape[j] = "base" -> BaseBar(j)
               [] shape[j] = "up" -> UpBar(j)
               [] shape[j] = "quiet" -> QuietBar(j)
               [] OTHER -> DipBar(j)] :
            shape \in [1..len -> {"base", "up", "quiet", "dip"}]} :
         len \in 0..MaxFvgBars}

InitFVG ==
  /\ pc = "call"
  /\ input \in FvgSeries
  /\ out = <<>>
  /\ ret = <<>>

CallFVG ==
  /\ pc = "call"
  /\ ret' = detectFVG(input, FvgLookForward)
  /\ pc' = "done"
  /\ UNCHANGED <<input, out>>

NextFVG == CallFVG

SpecFVG == InitFVG /\ [][NextFVG]_vars

TouchedLater(bars, i, zone_low, zone_high) ==
  \E k \in (i + 1)..Min2(Len(bars) - 1, i + 40) :
    Overlaps(At(bars, k), zone_low, zone_high)

Reported(type, bar, zone_low, zone_high, rebalanced) ==
  \E x \in DOMAIN ret :
    ret[x] = FVGOf(bar.date, type, zone_low, zone_high, rebalanced)

\* C17: a bullish FVG is reported at bar i exactly when bars[i].low >
\* bars[i-2].high, with that span as its zone, a bearish one exactly when
\* bars[i].high < bars[i-2].low, and rebalanced is true exactly when some bar
\* after bar i within the 40-bar forward window overlaps the zone.
C17_FvgRebalanced ==
  pc = "done" =>
    \A i \in 2..(Len(input) - 1) :
      LET c1 == At(input, i - 2)
          c3 == At(input, i)
      IN /\ (c3.low > c1.high) <=>
              (\E x \in DOMAIN ret :
                 ret[x].created_date = c3.date /\ ret[x].type = "bullish")
         /\ (c3.high < c1.low) <=>
              (\E x \in DOMAIN ret :
                 ret[x].created_date = c3.date /\ ret[x].type = "bearish")
         /\ c3.low > c1.high =>
              Reported("bullish", c3, c1.high, c3.low,
                       TouchedLater(input, i, c1.high, c3.low))
         /\ c3.high < c1.low =>
              Reported("bearish", c3, c3.high, c1.low,
                       TouchedLater(input, i, c3.high, c1.low))

\* ------------------------------------------------- sma (SpecSma)

\* One call of sma: every series of up to MaxSmaLen values 0..MaxSmaValue and
\* every period from -2 to MaxSmaPeriod.
MaxSmaLen == 4
MaxSmaValue == 2
MaxSmaPeriod == 3
SmaSeries == UNION {[1..len -> 0..MaxSmaValue] : len \in 0..MaxSmaLen}

InitSma ==
  /\ pc = "call"
  /\ input \in [values : SmaSeries, period : (-2)..MaxSmaPeriod]
  /\ out = <<>>
  /\ ret = <<>>

CallSma ==
  /\ pc = "call"
  /\ ret' = sma(input.values, input.period)
  /\ pc' = "done"
  /\ UNCHANGED <<input, out>>

NextSma == CallSma

SpecSma == InitSma /\ [][NextSma]_vars

\* C18: with period <= 0 or an empty input sma returns a series of the
\* input's length whose every entry is null, never NaN nor an infinity.
C18_SmaDegenerate ==
  (pc = "done" /\ (input.period <= 0 \/ input.values = <<>>)) =>
    /\ Len(ret) = Len(input.values)
    /\ \A j \in DOMAIN ret : ret[j] = NullVal

\* values[from] + ... + values[to], 0-based.
RECURSIVE WindowSum(_, _, _)
WindowSum(values, from, to) ==
  IF from > to THEN 0 ELSE Elem(values, from) + WindowSum(values, from + 1, to)

\* C19: for period >= 1 the output is null at i < period - 1 and the
\* arithmetic mean of values[i-period+1 .. i] from i = period - 1 on.
C19_SmaWindowMean ==
  (pc = "done" /\ input.period >= 1) =>
    /\ Len(ret) = Len(input.values)
    /\ \A i \in 0..(Len(input.values) - 1) :
         ret[i + 1] = IF i < input.period - 1 THEN NullVal
                      ELSE Rat(WindowSum(input.values, i - input.period + 1, i),
                               input.period)

\* Period 2 on four values: null, then the means of the pairs, the last of
\* which has left the first two values behind.
C19_Witness ==
  /\ pc = "done"
  /\ input.period = 2
  /\ input.values = <<2, 0, 1, 2>>
  /\ ret = <<NullVal, Rat(2, 2), Rat(1, 2), Rat(3, 2)>>

\* ------------------------------------------------- rsiWilder (SpecWilder)

\* gain / loss as the bare division: 0 / 0 is NaN.
relativeStrengthUnguarded(gain, loss) ==
  IF loss.num = 0
  THEN (IF gain.num = 0 THEN NaNVal ELSE InfVal(1))
  ELSE Rat(gain.num * loss.den, gain.den * loss.num)

\* loss === 0 ? Infinity : gain / loss (lines 200 and 211).
relativeStrength(gain, loss) ==
  IF loss.num = 0 THEN InfVal(1)
  ELSE Rat(gain.num * loss.den, gain.den * loss.num)

\* 100 / (1 + rs), the share of the losses.
rsiFromLossShare(rs) ==
  CASE rs.k = "nan" -> NaNVal
    [] rs.k = "inf" -> Rat(0, 1)
    [] OTHER -> Rat(100 * rs.den, rs.den + rs.num)

\* 100 - 100 / (1 + rs): 100 / Infinity is 0, and NaN stays NaN.
rsiFrom(rs) ==
  CASE rs.k = "nan" -> NaNVal
    [] rs.k = "inf" -> Rat(100, 1)
    [] OTHER -> Rat(100 * (rs.den + rs.num) - 100 * rs.den, rs.den + rs.num)

\* Lines 191-195: the gains and the losses of closes[1 .. period], summed.
RECURSIVE firstMoves(_, _)
firstMoves(closes, i) ==
  IF i = 0 THEN [gain |-> 0, loss |-> 0]
  ELSE LET before == firstMoves(closes, i - 1)
           ch == closes[i + 1] - closes[i]
       IN IF ch >= 0 THEN [gain |-> before.gain + ch, loss |-> before.loss]
          ELSE [gain |-> before.gain, loss |-> before.loss - ch]

\* Lines 203-213 from index i on.
RECURSIVE rsiLoop(_, _, _, _, _, _)
rsiLoop(closes, period, i, gain, loss, acc) ==
  IF ~(i < Len(closes)) THEN acc
  ELSE LET ch == closes[i + 1] - closes[i]
           g == IF ch > 0 THEN ch ELSE 0
           l == IF ch < 0 THEN -ch ELSE 0
           gain2 == wilderNext(gain, g, period)
           loss2 == wilderNext(loss, l, period)
       IN rsiLoop(closes, period, i + 1, gain2, loss2,
                  Append(acc, rsiFrom(relativeStrength(gain2, loss2))))

\* rsiWilder(closes, period = 14), period >= 1.
rsiWilder(closes, period) ==
  IF Len(closes) < period + 1 THEN [j \in 1..Len(closes) |-> NullVal]
  ELSE
    LET first == firstMoves(closes, period)
        gain == Rat(first.gain, period)
        loss == Rat(first.loss, period)
    IN rsiLoop(closes, period, period + 1, gain, loss,
               [j \in 1..period |-> NullVal]
                 \o <<rsiFrom(relativeStrength(gain, loss))>>)

\* One call of atrWilder and of rsiWilder on the same bars: every series of
\* up to MaxWilderBars bars closing on one of three prices, every period up
\* to MaxWilderPeriod.
MaxWilderBars == 5
MaxWilderPeriod == 3
WilderCloses == {9, 10, 11}
WilderSeries ==
  UNION {{[j \in 1..len |-> OHLCV(j, c[j], c[j] + 1, c[j] - 1, c[j], 1000)] :
            c \in [1..len -> WilderCloses]} : len \in 0..MaxWilderBars}

InitWilder ==
  /\ pc = "call"
  /\ input \in [bars : WilderSeries, period : 1..MaxWilderPeriod]
  /\ out = <<>>
  /\ ret = <<>>

CallWilder ==
  /\ pc = "call"
  /\ ret' = [atr |-> atrWilder(input.bars, input.period),
             rsi |-> rsiWilder([j \in 1..Len(input.bars) |-> input.bars[j].close],
                               input.period)]
  /\ pc' = "done"
  /\ UNCHANGED <<input, out>>

NextWilder == CallWilder

SpecWilder == InitWilder /\ [][NextWilder]_vars

WarmedUp(series, len, period) ==
  /\ Len(series) = len
  /\ \A i \in 0..(len - 1) :
       IF len < period + 1 \/ i < period
       THEN series[i + 1] = NullVal
       ELSE series[i + 1].k = "num"

\* C20: for period >= 1 atrWilder and rsiWilder return a series aligned with
\* the input, null below index period and a defined number from index period
\* on when the input has at least period + 1 elements, all null otherwise.
C20_WilderWarmUp ==
  pc = "done" =>
    /\ WarmedUp(ret.atr, Len(input.bars), input.period)
    /\ WarmedUp(ret.rsi, Len(input.bars), input.period)

\* Constant closes over five bars, period 2: no gain and no loss, an RSI of
\* 100 and an ATR of 2 from index 2 on.
C20_Witness ==
  /\ pc = "done"
  /\ input.period = 2
  /\ Len(input.bars) = 5
  /\ \A j \in 1..5 : input.bars[j].close = 10
  /\ ret.rsi = <<NullVal, NullVal, Rat(100, 1), Rat(100, 1), Rat(100, 1)>>
  /\ ret.atr = <<NullVal, NullVal, Rat(2, 1), Rat(2, 1), Rat(2, 1)>>

\* ------------------------------------------------- claims on rsiWilder

\* The moves that weigh in the smoothed averages at index i: all of
\* closes[0 .. i], or only the last one when period is 1 (the smoothing then
\* keeps nothing of the earlier ones).
Weighing(period, i) == IF period = 1 THEN {i} ELSE 1..i
MovedUp(bars, period, i) ==
  \E k \in Weighing(period, i) : At(bars, k).close > At(bars, k - 1).close
MovedDown(bars, period, i) ==
  \E k \in Weighing(period, i) : At(bars, k).close < At(bars, k - 1).close

\* C21: every defined value of rsiWilder lies in [0, 100]; it is 100 wherever
\* the smoothed average loss is zero (no move down weighs in it, a flat
\* series included) and 0 only where the smoothed average gain is zero (no
\* move up weighs in it) while the loss is positive.
C21_RsiRange ==
  pc = "done" =>
    \A i \in 0..(Len(ret.rsi) - 1) :
      LET v == ret.rsi[i + 1]
          up == MovedUp(input.bars, input.period, i)
          down == MovedDown(input.bars, input.period, i)
      IN v # NullVal =>
           /\ v.k = "num"
           /\ 0 <= v.num /\ v.num <= 100 * v.den
           /\ ~down => v = Rat(100, 1)
           /\ v = Rat(0, 1) => ~up /\ down

\* Period 2 on closes 10, 10, 10, 9, 11: 100 on the flat stretch, then values
\* strictly between 0 and 100 once moves both ways weigh in.
C21_Witness ==
  /\ pc = "done"
  /\ input.period = 2
  /\ Len(input.bars) = 5
  /\ input.bars[1].close = 10 /\ input.bars[2].close = 10
  /\ input.bars[3].close = 10
  /\ input.bars[4].close = 9 /\ input.bars[5].close = 11
  /\ ret.rsi = <<NullVal, NullVal, Rat(100, 1), Rat(0, 1), Rat(400, 5)>>

\* ------------------------------------------------- detectRSIDivergence (SpecDiv)

\* The truthiness of an RSI entry in `rA && rB`: null, undefined, NaN and 0
\* are falsy.
Truthy(x) == IsNum(x) /\ x # 0

RSIDiv(type, strength, pivot_dates) ==
  [type |-> type, strength |-> strength, pivot_dates |-> pivot_dates]

\* let strength = 1; +1 for an RSI delta >= 5; +1 for a second pivot within 20
\* bars of the end (lines 397-399 and 408-410).
divStrengthOf(bars, rA, rB, b) ==
  1 + (IF Abs(rB - rA) >= 5 THEN 1 ELSE 0)
    + (IF Len(bars) - 1 - b.i <= 20 THEN 1 ELSE 0)

\* Lines 393-402: the verdict after the swing lows.
bullishBest(bars, rsi, last2Lows) ==
  IF Len(last2Lows) = 2
  THEN LET a == last2Lows[1]
           b == last2Lows[2]
           rA == Elem(rsi, a.i)
           rB == Elem(rsi, b.i)
       IN IF Truthy(rA) /\ Truthy(rB) /\ b.price < a.price /\ rB > rA
          THEN RSIDiv("bullish", divStrengthOf(bars, rA, rB, b), <<a.date, b.date>>)
          ELSE RSIDiv("none", 0, <<>>)
  ELSE RSIDiv("none", 0, <<>>)

\* Lines 404-415: the verdict after the swing highs, from `best`.
bearishBest(bars, rsi, last2Highs, best) ==
  IF Len(last2Highs) = 2
  THEN LET a == last2Highs[1]
           b == last2Highs[2]
           rA == Elem(rsi, a.i)
           rB == Elem(rsi, b.i)
       IN IF Truthy(rA) /\ Truthy(rB) /\ b.price > a.price /\ rB < rA
          THEN LET cand == RSIDiv("bearish", divStrengthOf(bars, rA, rB, b),
                                  <<a.date, b.date>>)
               IN IF cand.strength > best.strength THEN cand ELSE best
          ELSE best
  ELSE best

\* detectRSIDivergence(bars, rsi, lookback = 3)
detectRSIDivergence(bars, rsi, lookback) ==
  LET p == pivots(bars, lookback)
  IN bearishBest(bars, rsi, sliceLast(p.highs, 2),
                 bullishBest(bars, rsi, sliceLast(p.lows, 2)))

\* A zigzag: swing lows at 10 and `low3`, swing highs at 20 and `high4`,
\* optionally after an earlier swing low, and `tail` quiet bars behind it that
\* put the second pivots at up to MaxTail + 2 bars from the end.  The RSI is
\* 50 off the four pivots and any of RsiAtPivot on them.
MaxTail == 20
DivTails == {0, MaxTail - 2, MaxTail - 1, MaxTail}
RsiAtPivot == {Null, 0, 25, 28, 32}
MidBar(j) == OHLCV(j, 13, 15, 12, 13, 1000)
LowBar(j, low) == OHLCV(j, 13, 14, low, 13, 1000)
HighBar(j, high) == OHLCV(j, 14, high, 13, 14, 1000)

DivHead(low3, high4) ==
  << MidBar(0), LowBar(0, 10), HighBar(0, 20), LowBar(0, low3),
     HighBar(0, high4), MidBar(0) >>

DivSeries(pre, low3, high4, tail) ==
  LET shapes == (IF pre THEN <<MidBar(0), LowBar(0, 8)>> ELSE <<>>)
                  \o DivHead(low3, high4) \o [j \in 1..tail |-> MidBar(0)]
  IN [j \in 1..Len(shapes) |-> [shapes[j] EXCEPT !.date = j]]

DivRsi(pre, len, r) ==
  LET first == IF pre THEN 3 ELSE 1
  IN [j \in 1..len |->
        IF j - 1 - first \in 0..3 THEN r[j - first] ELSE 50]

InitDiv ==
  /\ pc = "call"
  /\ \E pre \in BOOLEAN, low3 \in {9, 10, 11}, high4 \in {19, 20, 21},
        tail \in DivTails, r \in [1..4 -> RsiAtPivot] :
       LET bars == DivSeries(pre, low3, high4, tail)
       IN input = [bars |-> bars, rsi |-> DivRsi(pre, Len(bars), r)]
  /\ out = <<>>
  /\ ret = <<>>

CallDivergence ==
  /\ pc = "call"
  /\ ret' = detectRSIDivergence(input.bars, input.rsi, 1)
  /\ pc' = "done"
  /\ UNCHANGED <<input, out>>

NextDiv == CallDivergence

SpecDiv == InitDiv /\ [][NextDiv]_vars

\* The two most recent of a set of bar indices, oldest first.
TwoLatest(S) ==
  IF Cardinality(S) < 2 THEN <<>>
  ELSE LET b == Greatest(S) IN <<Greatest(S \ {b}), b>>

LatestLows == TwoLatest(StrictLows(input.bars, 1))
LatestHighs == TwoLatest(StrictHighs(input.bars, 1))
RsiDefined(i) == Elem(input.rsi, i) \notin {Null, Undefined}

\* Lower low with higher RSI; higher high with lower RSI.
BullishQualifies ==
  /\ LatestLows # <<>>
  /\ RsiDefined(LatestLows[1]) /\ RsiDefined(LatestLows[2])
  /\ At(input.bars, LatestLows[2]).low < At(input.bars, LatestLows[1]).low
  /\ Elem(input.rsi, LatestLows[2]) > Elem(input.rsi, LatestLows[1])

BearishQualifies ==
  /\ LatestHighs # <<>>
  /\ RsiDefined(LatestHighs[1]) /\ RsiDefined(LatestHighs[2])
  /\ At(input.bars, LatestHighs[2]).high > At(input.bars, LatestHighs[1]).high
  /\ Elem(input.rsi, LatestHighs[2]) < Elem(input.rsi, LatestHighs[1])

\* C22: the two most recent swing lows are a bullish candidate exactly when
\* the RSI is defined at both, the second low is lower and its RSI higher, for
\* every RSI in [0, 100], 0 included; the mirror on the two most recent swing
\* highs for bearish.
C22_DivergenceCandidates ==
  pc = "done" =>
    /\ ret.type = "bullish" => BullishQualifies
    /\ ret.type = "bearish" => BearishQualifies
    /\ (BullishQualifies /\ ~BearishQualifies) => ret.type = "bullish"
    /\ (BearishQualifies /\ ~BullishQualifies) => ret.type = "bearish"

\* 1, plus 1 for an RSI delta >= 5, plus 1 for a second pivot within 20 bars
\* of the end.
CandidateStrength(pair) ==
  1 + (IF Abs(Elem(input.rsi, pair[2]) - Elem(input.rsi, pair[1])) >= 5
       THEN 1 ELSE 0)
    + (IF Len(input.bars) - 1 - pair[2] <= 20 THEN 1 ELSE 0)

Verdict(type, pair) ==
  RSIDiv(type, CandidateStrength(pair),
         <<At(input.bars, pair[1]).date, At(input.bars, pair[2]).date>>)

\* C23: one verdict: none with strength 0 and no dates when neither candidate
\* qualifies, otherwise the qualifying candidate of highest strength (1..3),
\* the bearish one only when strictly stronger than the bullish one.
C23_SingleVerdict ==
  pc = "done" =>
    ret = CASE ~BullishQualifies /\ ~BearishQualifies -> RSIDiv("none", 0, <<>>)
            [] BullishQualifies /\ ~BearishQualifies -> Verdict("bullish", LatestLows)
            [] BearishQualifies /\ ~BullishQualifies -> Verdict("bearish", LatestHighs)
            [] OTHER ->
                 IF CandidateStrength(LatestHighs) > CandidateStrength(LatestLows)
                 THEN Verdict("bearish", LatestHighs)
                 ELSE Verdict("bullish", LatestLows)

\* ------------------------------------------------- detectOrderBlocks (SpecOB)

FirstBlockBar == 21
TapWindow == 40
BlocksKept == 10

\* The while loop of lines 476-492 from bar j down: the nearest earlier
\* candle of the opposite colour, or -1.
RECURSIVE lastOpposite(_, _, _)
lastOpposite(bars, j, bull) ==
  IF j < 0 THEN -1
  ELSE LET c == At(bars, j)
       IN IF (IF bull THEN c.close < c.open ELSE c.close > c.open) THEN j
          ELSE lastOpposite(bars, j - 1, bull)

\* The body of the loop for bar i (lines 461-493): what it pushes.
blockAt(bars, atr, avgVol20, i) ==
  LET b == At(bars, i)
      a == Elem(atr, i)
      tr == b.high - b.low
      volBase == IF Truthy(Elem(avgVol20, i)) THEN Elem(avgVol20, i) ELSE 0
      displacement == 2 * tr >= 3 * a /\ volBase > 0 /\ 2 * b.volume >= 3 * volBase
      bull == b.close > b.open
      j == lastOpposite(bars, i - 1, bull)
  IN IF ~Truthy(a) THEN <<>>
     ELSE IF ~displacement THEN <<>>
     ELSE IF j = -1 THEN <<>>
     ELSE LET c == At(bars, j)
              zone_low == Min2(c.open, c.close)
              zone_high == Max2(c.open, c.close)
          IN << [created_date |-> b.date,
                 type |-> IF bull THEN "bullish" ELSE "bearish",
                 zone_low |-> zone_low,
                 zone_high |-> zone_high,
                 tapped |-> \E k \in i..(Min2(Len(bars), i + TapWindow) - 1) :
                              Overlaps(At(bars, k), zone_low, zone_high)] >>

detectOrderBlocks(bars, atr, avgVol20) ==
  LET perBar == [x \in 1..(Len(bars) - FirstBlockBar) |->
                   blockAt(bars, atr, avgVol20, x + FirstBlockBar - 1)]
  IN sliceLast(concatAll(perBar, Len(perBar)), BlocksKept)

\* Twenty small candles, then FreeBlockBars candles of any of six shapes
\* (small, wide on heavy or light volume, or a narrow candle gapped away from
\* the previous close), with an ATR of 2 from bar 14 on, or none, and an
\* average volume of 1000.
FreeBlockBars == 4
SmallRed(j) == OHLCV(j, 11, 11, 10, 10, 1000)
SmallGreen(j) == OHLCV(j, 10, 11, 10, 11, 1000)
BlockShapes(j) ==
  {SmallRed(j), SmallGreen(j),
   OHLCV(j, 10, 14, 10, 14, 2000), OHLCV(j, 10, 14, 10, 14, 1000),
   OHLCV(j, 14, 14, 10, 10, 2000), OHLCV(j, 17, 18, 17, 18, 2000)}

BlockSeries ==
  {[j \in 1..(20 + FreeBlockBars) |->
      IF j > 20 THEN free[j - 20]
      ELSE IF j % 5 = 0 THEN SmallRed(j) ELSE SmallGreen(j)] :
     free \in {f \in [1..FreeBlockBars -> UNION {BlockShapes(j) : j \in 21..(20 + FreeBlockBars)}] :
                 \A k \in 1..FreeBlockBars : f[k].date = 20 + k}}

InitOB ==
  /\ pc = "call"
  /\ \E bars \in BlockSeries, hasAtr \in BOOLEAN :
       input = [bars |-> bars,
                atr |-> [j \in 1..Len(bars) |->
                           IF hasAtr /\ j > 14 THEN 2 ELSE Null],
                avgVol20 |-> [j \in 1..Len(bars) |-> 1000]]
  /\ out = <<>>
  /\ ret = <<>>

CallOrderBlocks ==
  /\ pc = "call"
  /\ ret' = detectOrderBlocks(input.bars, input.atr, input.avgVol20)
  /\ pc' = "done"
  /\ UNCHANGED <<input, out>>

NextOB == CallOrderBlocks

SpecOB == InitOB /\ [][NextOB]_vars

\* A displacement bar: true range >= 1.5 x ATR and volume >= 1.5 x the
\* 20-bar average volume, the ATR being defined.
Displacement(i) ==
  LET b == At(input.bars, i)
  IN /\ i >= 1
     /\ Elem(input.atr, i) # Null
     /\ 2 * trueRange(At(input.bars, i - 1).close, b.high, b.low)
          >= 3 * Elem(input.atr, i)
     /\ 2 * b.volume >= 3 * Elem(input.avgVol20, i)

OppositeBefore(i) ==
  LET b == At(input.bars, i)
  IN {j \in 0..(i - 1) :
        LET c == At(input.bars, j)
        IN IF b.close > b.open THEN c.close < c.open ELSE c.close > c.open}

\* C24: bar i with a defined ATR is a displacement bar exactly when its true
\* range is >= 1.5 x ATR[i] and its volume >= 1.5 x the 20-bar average, and
\* the order block of a displacement bar is the body of the nearest earlier
\* candle of the opposite colour.
C24_OrderBlocks ==
  pc = "done" =>
    /\ \A x \in DOMAIN ret : Displacement(ret[x].created_date - 1)
    /\ \A i \in 0..(Len(input.bars) - 1) :
         (Displacement(i) /\ OppositeBefore(i) # {}) =>
           LET c == At(input.bars, Greatest(OppositeBefore(i)))
           IN \E x \in DOMAIN ret :
                /\ ret[x].created_date = At(input.bars, i).date
                /\ ret[x].zone_low = Min2(c.open, c.close)
                /\ ret[x].zone_high = Max2(c.open, c.close)

\* ------------------------------------------------------- computeFib (SpecFib)

FibLookback == 5
\* A value that may be null or undefined is the list of at most one value.
NoFib == [anchor |-> <<>>, retracements |-> <<>>, extensions |-> <<>>,
          confluences |-> <<>>]

\* [...list].reverse().find(x => x.i < i) with the earliest match taken.
earliestBefore(list, i) ==
  LET before == {k \in DOMAIN list : list[k].i < i}
  IN IF before = {} THEN <<>> ELSE <<list[Smallest(before)]>>

\* [...list].reverse().find(x => x.i < i): the last pivot of the list before
\* bar i, or undefined.
priorPivot(list, i) ==
  LET before == {k \in DOMAIN list : list[k].i < i}
  IN IF before = {} THEN <<>> ELSE <<list[Greatest(before)]>>

\* The trend branches of lines 511-530: the pair (fromP, toP), none where the
\* code leaves them null.
fibSwing(lows, highs, trendState) ==
  LET lastHigh == highs[Len(highs)]
      lastLow == lows[Len(lows)]
      up == LET priorLow == priorPivot(lows, lastHigh.i)
            IN IF priorLow # <<>>
               THEN <<[fromP |-> priorLow[1], toP |-> lastHigh]>>
               ELSE <<>>
      down == LET priorHigh == priorPivot(highs, lastLow.i)
              IN IF priorHigh # <<>>
                 THEN <<[fromP |-> priorHigh[1], toP |-> lastLow]>>
                 ELSE <<>>
  IN IF trendState = "uptrend" THEN up
     ELSE IF trendState = "downtrend" THEN down
     ELSE IF lastHigh.i > lastLow.i THEN up
     ELSE down

\* Levels and level prices are kept in thousandths (0.382 is 382).
retrLevels == <<382, 500, 618>>
extLevels == <<1272, 1618>>

computeFib(bars, trendState, sma20Last, sma50Last, atrLast) ==
  LET p == pivots(bars, FibLookback)
  IN IF Len(p.lows) = 0 \/ Len(p.highs) = 0 THEN NoFib
     ELSE
       LET swing == fibSwing(p.lows, p.highs, trendState)
       IN IF swing = <<>> THEN NoFib
          ELSE
            LET s == swing[1]
                from == s.fromP.price
                to == s.toP.price
                dirUp == to > from
                move == Abs(to - from)
                retracements ==
                  [k \in DOMAIN retrLevels |->
                     [level |-> retrLevels[k],
                      price |-> IF dirUp THEN 1000 * to - move * retrLevels[k]
                                ELSE 1000 * to + move * retrLevels[k]]]
                extensions ==
                  [k \in DOMAIN extLevels |->
                     [level |-> extLevels[k],
                      price |-> IF dirUp
                                THEN 1000 * to + move * (extLevels[k] - 1000)
                                ELSE 1000 * to - move * (extLevels[k] - 1000)]]
                near(r, ma) ==
                  /\ Truthy(atrLast)
                  /\ Truthy(ma)
                  /\ 2 * Abs(r.price - 1000 * ma) <= 1000 * atrLast
                reasonsOf(r) ==
                  (IF near(r, sma20Last) THEN <<"near_SMA20">> ELSE <<>>)
                    \o (IF near(r, sma50Last) THEN <<"near_SMA50">> ELSE <<>>)
                confluenceOf ==
                  [k \in DOMAIN retracements |->
                     IF reasonsOf(retracements[k]) = <<>> THEN <<>>
                     ELSE << [price |-> retracements[k].price,
                              reasons |-> <<"fib_retracement">>
                                            \o reasonsOf(retracements[k])] >>]
            IN [anchor |-> << [from |-> from, to |-> to,
                               from_date |-> s.fromP.date,
                               to_date |-> s.toP.date] >>,
                retracements |-> retracements,
                extensions |-> extensions,
                confluences |-> concatAll(confluenceOf, Len(confluenceOf))]

\* FibBars bars, flat (high 11, low 9) except two bars near each end of the
\* range that pivots(bars, 5) examines, each of which may be a peak (high 13),
\* a trough (low 7) or both; every trend state; moving averages and ATR
\* present or absent.
FibBars == 18
FibShapes == {<<11, 9>>, <<13, 9>>, <<11, 7>>, <<13, 7>>}
FibFree == {6, 7, FibBars - 6, FibBars - 5}
FibSeries ==
  {[j \in 1..FibBars |->
      IF j \in FibFree THEN HighLowBar(j, shape[j][1], shape[j][2])
      ELSE HighLowBar(j, 11, 9)] : shape \in [FibFree -> FibShapes]}
TrendStates == {"uptrend", "downtrend", "range", "unknown"}

InitFib ==
  /\ pc = "call"
  /\ \E bars \in FibSeries, trendState \in TrendStates,
        sma20Last \in {Null, 8}, atrLast \in {Null, 2} :
       input = [bars |-> bars, trendState |-> trendState,
                sma20Last |-> sma20Last, sma50Last |-> 10,
                atrLast |-> atrLast]
  /\ out = <<>>
  /\ ret = <<>>

CallFib ==
  /\ pc = "call"
  /\ ret' = computeFib(input.bars, input.trendState, input.sma20Last,
                       input.sma50Last, input.atrLast)
  /\ pc' = "done"
  /\ UNCHANGED <<input, out>>

NextFib == CallFib

SpecFib == InitFib /\ [][NextFib]_vars

\* The swing highs and lows of the input by the strict-extreme rule.
SwingHighs == StrictHighs(input.bars, FibLookback)
SwingLows == StrictLows(input.bars, FibLookback)

\* The anchor the rule prescribes for a `to` pivot at bar t taken among the
\* pivots Tos, with `from` the latest of Froms before it, if there is such a
\* pair.
AnchorTo(Tos, Froms, toHigh) ==
  IF Tos = {} THEN <<>>
  ELSE LET t == Greatest(Tos)
           earlier == {f \in Froms : f < t}
       IN IF earlier = {} THEN <<>>
          ELSE << [from |-> Greatest(earlier), to |-> t, toHigh |-> toHigh] >>

ToHigh == AnchorTo(SwingHighs, SwingLows, TRUE)
ToLow == AnchorTo(SwingLows, SwingHighs, FALSE)

Prescribed ==
  IF input.trendState = "uptrend" THEN {ToHigh}
  ELSE IF input.trendState = "downtrend" THEN {ToLow}
  ELSE IF SwingHighs = {} \/ SwingLows = {} THEN {<<>>}
  ELSE IF Greatest(SwingHighs) > Greatest(SwingLows) THEN {ToHigh}
  ELSE IF Greatest(SwingHighs) < Greatest(SwingLows) THEN {ToLow}
  ELSE {ToHigh, ToLow}

PriceAt(i, isHigh) ==
  IF isHigh THEN At(input.bars, i).high ELSE At(input.bars, i).low

\* C25: the anchor runs from the latest opposite pivot before `to`, where `to`
\* is the latest swing high (uptrend), the latest swing low (downtrend) or
\* the later of the two (otherwise); without such a pair the anchor is null
\* and the three lists are empty.
C25_FibAnchor ==
  pc = "done" =>
    \E a \in Prescribed :
      IF a = <<>> THEN ret = NoFib
      ELSE /\ ret.anchor # <<>>
           /\ a[1].from < a[1].to
           /\ ret.anchor[1].from_date = At(input.bars, a[1].from).date
           /\ ret.anchor[1].to_date = At(input.bars, a[1].to).date
           /\ ret.anchor[1].to = PriceAt(a[1].to, a[1].toHigh)
           /\ ret.anchor[1].from = PriceAt(a[1].from, ~a[1].toHigh)

\* An uptrend with two swing lows before the latest swing high: the anchor
\* starts at the later one.
C25_Witness ==
  /\ pc = "done"
  /\ input.trendState = "uptrend"
  /\ Cardinality({l \in SwingLows : l < Greatest(SwingHighs \cup {0})}) = 2
  /\ ret.anchor # <<>>
  /\ ret.anchor[1].from_date = FibBars - 6

\* ------------------------------------------- buildSignals, twice (SpecTwice)

\* buildSignals(input) as one call: what it returns, or the error it throws.
buildSignals(in) ==
  LET r == detectKeyLevelSignals(Coalesce(in.spot, Null), in.key_levels)
      pushed == detectCandleSignals(in.bars)
                  \o detectRSISignals(Coalesce(in.rsi14, Null), in.rsi_divergence)
                  \o detectFVGSignals(in.bars)
                  \o detectLiquiditySweepSignals(in.bars)
                  \o (IF in.has_ma THEN detectMACrossSignals(in.ma) ELSE <<>>)
  IN IF r.threw # "" THEN r
     ELSE Returned(DedupeCap(SortBySeverity(pushed \o r.value)))

\* A first call of buildSignals, line by line as in SpecBuild, then a second
\* call on the same input object; ret keeps both outcomes.
CallAgain ==
  /\ pc \in {"done", "threw"}
  /\ ret' = [first |-> IF pc = "done" THEN Returned(ret)
                       ELSE detectKeyLevelSignals(Coalesce(input.spot, Null),
                                                  input.key_levels),
             second |-> buildSignals(input)]
  /\ pc' = "twice"
  /\ UNCHANGED <<input, out>>

NextTwice ==
  \/ PushCandles
  \/ PushRSI
  \/ PushFVG
  \/ PushLiquidity
  \/ PushMACross
  \/ PushKeyLevels
  \/ RankDedupeCap
  \/ CallAgain

SpecTwice == InitBuild /\ [][NextTwice]_vars

MinSecretLength == 16

\* requireSecret(req, env): TRUE where it throws Error("unauthorized").
requireSecret(header, APP_SECRET) ==
  LET provided == IF header = <<>> \/ header = <<"">> THEN "" ELSE header[1]
  IN IF APP_SECRET = <<>> \/ APP_SECRET = <<"">>
          \/ Len(APP_SECRET[1]) < MinSecretLength
     THEN FALSE
     ELSE provided # APP_SECRET[1]

PostPaths ==
  {"/daily-report", "/watchlists", "/watchlists/add", "/watchlists/run",
   "/weekly-picks"}

\* What a POST handler does once requireSecret has returned.  `complete` says
\* that the body names what the handler requires and no stored report answers
\* the request: the handler then inserts into its table and answers 201;
\* otherwise it answers without a write (400, or 200 from the stored weekly
\* report).  POST /watchlists supplies a default name and always inserts.
postHandler(path, complete) ==
  CASE path = "/daily-report" ->
         IF complete THEN [status |-> 201, writes |-> <<"ticker_reports">>]
         ELSE [status |-> 400, writes |-> <<>>]
    [] path = "/watchlists" -> [status |-> 201, writes |-> <<"watchlists">>]
    [] path = "/watchlists/add" ->
         IF complete THEN [status |-> 201, writes |-> <<"watchlist_items">>]
         ELSE [status |-> 400, writes |-> <<>>]
    [] path = "/watchlists/run" ->
         IF complete THEN [status |-> 201, writes |-> <<"ticker_reports">>]
         ELSE [status |-> 400, writes |-> <<>>]
    [] path = "/weekly-picks" ->
         IF complete THEN [status |-> 201, writes |-> <<"weekly_reports">>]
         ELSE [status |-> 200, writes |-> <<>>]

\* handleApi for a POST request: requireSecret is the first statement of every
\* POST branch, and the catch clause turns its error into 401.
handlePost(path, header, APP_SECRET, complete) ==
  IF requireSecret(header, APP_SECRET) THEN [status |-> 401, writes |-> <<>>]
  ELSE postHandler(path, complete)

Secrets ==
  {<<>>, <<"">>, <<"hunter2">>, <<"0123456789abcde">>, <<"0123456789abcdef">>,
   <<"a-long-random-string-of-30-chars">>}
Headers ==
  {<<>>, <<"">>, <<"hunter2">>, <<"guess">>, <<"0123456789abcdef">>,
   <<"fedcba9876543210">>, <<"a-long-random-string-of-30-chars">>}

InitAuth ==
  /\ pc = "request"
  /\ \E path \in PostPaths, header \in Headers, APP_SECRET \in Secrets,
        complete \in BOOLEAN :
       input = [path |-> path, header |-> header, APP_SECRET |-> APP_SECRET,
                complete |-> complete]
  /\ out = <<>>
  /\ ret = <<>>

\* One POST request: `out` is the list of tables written, `ret` the response.
Post ==
  /\ pc = "request"
  /\ LET r == handlePost(input.path, input.header, input.APP_SECRET,
                         input.complete)
     IN /\ out' = out \o r.writes
        /\ ret' = <<r.status>>
  /\ pc' = "done"
  /\ UNCHANGED input

NextAuth == Post

SpecAuth == InitAuth /\ [][NextAuth]_vars

\* C27: for every configured APP_SECRET, a POST request whose x-app-secret
\* header differs from it (or is absent) is answered 401 and writes nothing.
C27_SecretRequired ==
  (/\ pc = "done"
   /\ input.APP_SECRET \notin {<<>>, <<"">>}
   /\ input.header # input.APP_SECRET)
    => (ret = <<401>> /\ out = <<>>)

\* ------------------------------------------ parsePrefsFromPrompt (SpecPrefs)

defaultPrefs ==
  [directional_structure |-> "naked", wheel_structure_preference |-> "naked",
   mode |-> "both"]

\* A prompt is the list of its words, separated by blanks.
PromptWords ==
  {"wheel", "csp", "debit", "spread", "spreads", "naked", "NAKED", "only",
   "auto", "nakedness"}

toLowerCase(word) == IF word = "NAKED" THEN "naked" ELSE word

\* /\bword\b/.test(prompt) and /\bfirst second\b/.test(prompt)
hasWord(prompt, word) == \E k \in DOMAIN prompt : prompt[k] = word
hasWords(prompt, first, second) ==
  \E k \in DOMAIN prompt :
    k + 1 \in DOMAIN prompt /\ prompt[k] = first /\ prompt[k + 1] = second

parsePrefsFromPrompt(promptRaw) ==
  LET prompt == [k \in DOMAIN promptRaw |-> toLowerCase(promptRaw[k])]
      wantsWheel ==
        hasWord(prompt, "wheel") \/ hasWord(prompt, "csp") \/ hasWord(prompt, "cc")
      wantsSpreads ==
        \/ hasWord(prompt, "spread") \/ hasWord(prompt, "spreads")
        \/ hasWords(prompt, "debit", "spread")
        \/ hasWords(prompt, "credit", "spread")
      p1 == IF wantsWheel THEN [defaultPrefs EXCEPT !.mode = "both"]
            ELSE defaultPrefs
      p2 == IF wantsSpreads /\ ~wantsWheel
            THEN [p1 EXCEPT !.directional_structure = "spreads"] ELSE p1
      p3 == IF wantsWheel
            THEN [p2 EXCEPT !.wheel_structure_preference =
                              IF wantsSpreads THEN "spreads" ELSE "naked"]
            ELSE p2
      p4 == IF hasWord(prompt, "naked") /\ hasWord(prompt, "only")
            THEN [p3 EXCEPT !.directional_structure = "naked",
                            !.wheel_structure_preference = "naked"]
            ELSE p3
  IN IF wantsWheel /\ hasWord(prompt, "auto")
     THEN [p4 EXCEPT !.wheel_structure_preference = "auto"]
     ELSE p4

\* Every prompt of up to MaxPromptWords words; the empty list is also the
\* absent prompt.
MaxPromptWords == 4
Prompts == UNION {[1..len -> PromptWords] : len \in 0..MaxPromptWords}

InitPrefs ==
  /\ pc = "call"
  /\ input \in Prompts
  /\ out = <<>>
  /\ ret = <<>>

CallParsePrefs ==
  /\ pc = "call"
  /\ ret' = parsePrefsFromPrompt(input)
  /\ pc' = "done"
  /\ UNCHANGED <<input, out>>

NextPrefs == CallParsePrefs

SpecPrefs == InitPrefs /\ [][NextPrefs]_vars

SaysWord(word) == \E k \in DOMAIN input : toLowerCase(input[k]) = word

\* C28: a prompt with both the word naked and the word only gives naked for
\* directional_structure and for wheel_structure_preference, whatever else
\* it says; and mode is both for every prompt.
C28_NakedOnly ==
  pc = "done" =>
    /\ ret.mode = "both"
    /\ (SaysWord("naked") /\ SaysWord("only")) =>
         /\ ret.directional_structure = "naked"
         /\ ret.wheel_structure_preference = "naked"

\* --------------------------------------------- POST /daily-report (SpecCache)

\* The clock counts half seconds.  created_at is nowIso(), and the query
\* orders by datetime(created_at), which keeps whole seconds only.
TicksPerSecond == 2
datetime(created_at) == created_at \div TicksPerSecond

\* A JSON text is kept as the value it denotes, wrapped.
stringify(value) == [json |-> value]
parse(text) == text.json

toUpperCase(symbol) == IF symbol = "aapl" THEN "AAPL" ELSE symbol

\* getCachedTickerReport: the rows of (symbol, asof, reportType), ordered by
\* datetime(created_at) DESC, LIMIT 1.  Rows of one second are in no defined
\* order, so each of them may be the first.
getCachedTickerReport(table, symbol, asof, reportType) ==
  LET found == {k \in DOMAIN table :
                  /\ table[k].symbol = symbol
                  /\ table[k].asof_date = asof
                  /\ table[k].report_type = reportType}
  IN {table[k] : k \in {f \in found :
                          \A g \in found : datetime(table[g].created_at)
                                             <= datetime(table[f].created_at)}}

\* saveTickerReport: the row inserted at time now.
saveTickerReport(symbol, asof, reportType, prefs, payload, now) ==
  [symbol |-> symbol, asof_date |-> asof, report_type |-> reportType,
   preferences_json |-> stringify(prefs), payload_json |-> stringify(payload),
   created_at |-> now]

MaxRows == 3
MaxNow == 3
DailyRequests ==
  [symbol : {"", "aapl"}, asof_date : {"d1", "d2"},
   prompt : {<<>>, <<"spreads">>}, force : BOOLEAN]
NoRequest == [symbol |-> "", asof_date |-> "", prompt |-> <<>>, force |-> FALSE]
BadRequest == [status |-> 400, cached |-> FALSE, preferences |-> <<>>, payload |-> <<>>]
ServerError == [status |-> 500, cached |-> FALSE, preferences |-> <<>>, payload |-> <<>>]

\* `out` is the ticker_reports table in insertion order, `input` the clock and
\* the request being served, `ret` the last response.
InitCache ==
  /\ pc = "idle"
  /\ input = [now |-> 0, request |-> NoRequest]
  /\ out = <<>>
  /\ ret = <<>>

Tick ==
  /\ input.now < MaxNow
  /\ input' = [input EXCEPT !.now = input.now + 1]
  /\ UNCHANGED <<pc, out, ret>>

Receive ==
  /\ pc = "idle"
  /\ Len(out) < MaxRows
  /\ \E request \in DailyRequests : input' = [input EXCEPT !.request = request]
  /\ pc' = "handling"
  /\ UNCHANGED <<out, ret>>

\* Lines 1093-1117.  The report generated is told apart by the number of rows
\* stored when it was generated; generateDailyOutlookReport may throw.
PostDailyReport ==
  /\ pc = "handling"
  /\ pc' = "idle"
  /\ UNCHANGED input
  /\ LET body == input.request
         symbol == toUpperCase(body.symbol)
         prefs == parsePrefsFromPrompt(body.prompt)
         hits == IF body.force THEN {}
                 ELSE getCachedTickerReport(out, symbol, body.asof_date,
                                            "daily_outlook")
     IN IF symbol = "" THEN ret' = BadRequest /\ out' = out
        ELSE IF hits # {}
        THEN \E cached \in hits :
               /\ ret' = [status |-> 200, cached |-> TRUE,
                          preferences |-> <<parse(cached.preferences_json)>>,
                          payload |-> <<parse(cached.payload_json)>>]
               /\ out' = out
        ELSE \/ ret' = ServerError /\ out' = out
             \/ LET payload == [symbol |-> symbol, asof_date |-> body.asof_date,
                                generated |-> Len(out) + 1]
                IN /\ out' = Append(out, saveTickerReport(symbol, body.asof_date,
                                           "daily_outlook", prefs, payload,
                                           input.now))
                   /\ ret' = [status |-> 201, cached |-> FALSE,
                              preferences |-> <<prefs>>, payload |-> <<payload>>]

NextCache ==
  \/ Tick
  \/ Receive
  \/ PostDailyReport

SpecCache == InitCache /\ [][NextCache]_vars

\* The stored daily_outlook rows of the request being served, and the one
\* created last.
Stored ==
  {k \in DOMAIN out :
     /\ out[k].symbol = toUpperCase(input.request.symbol)
     /\ out[k].asof_date = input.request.asof_date}
LastStored == out[Greatest(Stored)]

SlopeLookback == 10
TrendPeriod == 50

\* if (v) for an entry of an indicator series.
TruthyVal(v) == v.k = "inf" \/ (v.k = "num" /\ v.num # 0)

\* a > b for two finite entries.
Above(a, b) == a.num * b.den > b.num * a.den

\* slopeUp with equality counted as rising.
slopeUpOrFlat(lastSma50, priorSma50) == ~Above(priorSma50, lastSma50)

\* const slopeUp = lastSma50 > sma50[bars.length - 11]
slopeUp(lastSma50, priorSma50) == Above(lastSma50, priorSma50)

\* Lines 770-776, for len >= 60: both entries of sma50 exist.
trendStateOf(lastClose, sma50, len) ==
  LET lastSma50 == At(sma50, len - 1)
      priorSma50 == At(sma50, len - 1 - SlopeLookback)
      close == Rat(lastClose, 1)
  IN IF TruthyVal(lastSma50) /\ TruthyVal(priorSma50)
     THEN IF Above(close, lastSma50) /\ slopeUp(lastSma50, priorSma50)
          THEN "uptrend"
          ELSE IF Above(lastSma50, close) /\ ~slopeUp(lastSma50, priorSma50)
          THEN "downtrend"
          ELSE "range"
     ELSE "unknown"

\* Fetched series of 59 to 59 + TrendExtra bars: closes at one level, then
\* nine closes at a second level and a last close of its own.
TrendExtra == 3
TrendLevels == {9, 10, 11}
LastCloses == {1, 8, 9, 10, 11, 12, 19}
TrendSeries(len, early, late, lastClose) ==
  [j \in 1..len |->
     LET close == IF j = len THEN lastClose
                  ELSE IF j > len - SlopeLookback THEN late ELSE early
     IN OHLCV(j, close, Max2(close, 1) + 1, Max2(close, 1) - 1, close, 1000)]

InitTrend ==
  /\ pc = "fetched"
  /\ \E len \in (MinReportBars - 1)..(MinReportBars - 1 + TrendExtra),
        early \in TrendLevels \cup {0}, late \in TrendLevels,
        lastClose \in LastCloses :
       input = TrendSeries(len, early, late, lastClose)
  /\ out = <<>>
  /\ ret = <<>>

\* generateDailyOutlookReport up to line 776: the history check, then the
\* trend state with the two SMA50 values it was decided on.
ClassifyTrend ==
  /\ pc = "fetched"
  /\ IF HistoryTooShort(input)
     THEN pc' = "threw" /\ ret' = ret
     ELSE LET closes == [j \in 1..Len(input) |-> input[j].close]
              sma50 == sma(closes, TrendPeriod)
          IN /\ ret' = [trendState |->
                          trendStateOf(input[Len(input)].close, sma50, Len(input)),
                        sma50 |-> sma50]
             /\ pc' = "done"
  /\ UNCHANGED <<input, out>>

NextTrend == ClassifyTrend

SpecTrend == InitTrend /\ [][NextTrend]_vars

\* The mean of the 50 closes ending at bar i (0-based), times 50.
SumOfCloses(i) ==
  WindowSum([j \in 1..Len(input) |-> input[j].close], i - TrendPeriod + 1, i)

\* C30: with at least 60 bars of positive closes the trend is uptrend when
\* the last close is above SMA50 and SMA50 is above its value 10 bars
\* earlier, downtrend when the last close is below SMA50 and SMA50 is not
\* above that value, range otherwise, and never unknown.
C30_TrendState ==
  (/\ pc \in {"done", "threw"}
   /\ Len(input) >= MinReportBars
   /\ \A j \in DOMAIN input : input[j].close > 0)
    => /\ pc = "done"
       /\ LET last == Len(input) - 1
              lastClose == input[Len(input)].close
              now50 == SumOfCloses(last)
              then50 == SumOfCloses(last - SlopeLookback)
              up == TrendPeriod * lastClose > now50 /\ now50 > then50
              down == TrendPeriod * lastClose < now50 /\ ~(now50 > then50)
          IN /\ ret.trendState \in {"uptrend", "downtrend", "range"}
             /\ ret.trendState = "uptrend" <=> up
             /\ ret.trendState = "downtrend" <=> down
             /\ ret.trendState = "range" <=> (~up /\ ~down)

\* A downtrend decided on an SMA50 equal to its value 10 bars earlier.
C30_Witness ==
  /\ pc = "done"
  /\ ret.trendState = "downtrend"
  /\ SumOfCloses(Len(input) - 1) = SumOfCloses(Len(input) - 1 - SlopeLookback)
  /\ \A j \in DOMAIN input : input[j].close > 0

====
